---------------------------- MODULE Spec2Model ----------------------------
(***************************************************************************)
(* Model of the bridge streaming core of transport-lib (package bridge):   *)
(*   - Delivery.Ack              (pkg/bridge/delivery.go, first file)       *)
(*   - bridgeService.Stream and session.send (same path, server file)      *)
(*   - client: Start / run / connect / consume / heartbeatLoop /           *)
(*     PublishIngress / Close / cleanup   (unnamed/part_003)               *)
(* Three specifications share the variables: SpecAck, SpecServer and Spec  *)
(* (the client).  Each leaves the other components' variables unchanged.   *)
(***************************************************************************)
EXTENDS Naturals, Sequences, FiniteSets

(***************************************************************************)
(* Bounds of the model.                                                    *)
(***************************************************************************)
NumAckCallers == 3
MaxAckRounds == 2

MaxSrvFrames == 3
NumSenders == 2

NumStarters == 2
NumClosers == 2
NumPublishers == 2
MaxConnects == 2
MaxAttempts == 4
MaxInbound == 1
MaxStreamFrames == 3
\* Streams opened on one server, application tasks calling Server.Close, and
\* frames dispatched to the handler per stream.
NumServeStreams == 3
NumServeClosers == 2
MaxDispatch == 2
\* Seconds of time, simple tokens issued to a user, RevokeSimpleToken calls,
\* and concurrent ConsumeRefreshToken calls.
MaxTime == 5
MaxSimpleTokens == 2
MaxSimpleRevokes == 1
NumConsumers == 3
\* NormalizeEnvelope calls made on one envelope.
MaxNormalizeCalls == 2
\* Options of the client (part_004 Options): the slot pool's and the
\* subscription channels' capacities, kept small.
MaxInFlightDeliver == 1
DeliverBuffer == 1
BroadcastBuffer == 1

\* part_003:98-99,121-122: the base interval used when ReconnectBackoff <= 0,
\* and part_003:102-103: the ceiling used when MaxReconnectBackoff <= 0
\* (in seconds).
\* part_003:61,64: the capacity of a subscription channel whose buffer option
\* is <= 0.
DefaultBuffer == 128

DefaultReconnectBackoff == 1
DefaultMaxReconnectBackoff == 15

\* envelope.go:14: const Version.
Version == "2025-01"

AckCallers == 1..NumAckCallers
Senders == 1..NumSenders
Starters == 1..NumStarters
Closers == 1..NumClosers
Publishers == 1..NumPublishers
Conns == 1..MaxAttempts
\* The streams clients open on the server, and the callers of Server.Close:
\* caller 0 is the task Serve starts to watch its context.
ServeStreams == 1..NumServeStreams
ServeClosers == 0..NumServeClosers
\* The callers of ConsumeRefreshToken on one refresh token.
Consumers == 1..NumConsumers

\* Error values an acknowledgement function may return ("nil" is no error).
AckResults == {"nil", "e1", "e2"}

VARIABLES
  \* ---- Delivery (delivery.go:11-18)
  ackFnBound,   \* d.ackFn # nil
  ackOnce,      \* d.ackOnce: "idle" | "running" | "done"
  ackErr,       \* d.ackErr
  ackInvoked,   \* sequence of the results of the invocations of d.ackFn
  ackPc,        \* position of each Ack caller
  ackRet,       \* value returned by the caller's last completed Ack call
  ackRound      \* number of Ack calls each caller has completed

ackVars == <<ackFnBound, ackOnce, ackErr, ackInvoked, ackPc, ackRet, ackRound>>

VARIABLES
  \* ---- one server stream, bridgeService.Stream (delivery.go:158-209)
  svPc,         \* position of the Stream function
  svFirst,      \* the first frame the stream delivered ("none" before)
  svCur,        \* the frame read last
  svFrames,     \* number of frames read from the stream
  svMeta,       \* sess.meta ("none" while no session exists)
  svLog,        \* the handler callbacks invoked on this stream, in order
  svPending,    \* the error the function is returning while OnClose runs
  svRet,        \* the error Stream returned ("none" while it runs)
  \* ---- its session (delivery.go:121-156)
  sessMu,       \* session.sendMu: 0 or the sender holding it
  sessWriters,  \* the senders inside stream.Send
  sndPc,        \* position of each caller of SendDeliver/Broadcast/Heartbeat
  sndKind,      \* the frame the caller is sending
  metaRead      \* the last value Metadata() returned

serverVars == <<svPc, svFirst, svCur, svFrames, svMeta, svLog, svPending, svRet,
                sessMu, sessWriters, sndPc, sndKind, metaRead>>

VARIABLES
  \* ---- the client (part_003:26-47) and its environment
  load,         \* the application driving the client (one of Loads)
  backpressure, \* c.inflight # nil (EnableBackpressure && MaxInFlightDeliver > 0)
  topDone,      \* the context passed to Start is cancelled
  startOnce,    \* c.startOnce: "idle" | "running" | "done"
  stopOnce,     \* c.stopOnce
  runCancel,    \* c.runCancel # nil
  runCancelled, \* c.runCancel has been called
  cancel,       \* c.cancel: 0 (nil) or the connection attempt whose context it cancels
  conn,         \* c.conn: 0 (nil) or the attempt that dialed it
  stream,       \* c.stream: 0 (nil) or the attempt that opened it
  started,      \* c.started
  closed,       \* c.closed
  sendMu,       \* c.sendMu: NoProc or the task holding it
  inflight,     \* number of tokens in the c.inflight channel
  wg,           \* counter of c.wg
  recvErr,      \* c.recvErr: 0 (nil) or the attempt that made the channel
  recvErrBuf,   \* number of errors queued in each recvErr channel (capacity 1)
  deliverCh,    \* content of c.deliverCh
  broadcastCh,  \* content of c.broadcastCh
  deliverClosed,   \* number of close(c.deliverCh) executed
  broadcastClosed, \* number of close(c.broadcastCh) executed
  \* ---- the tasks
  startPc, startRet,     \* callers of Start
  closePc, closeTmp, closeRuns,  \* callers of Close; runs of its teardown body
  supervisors,  \* number of run tasks started
  runPc,        \* position of the supervisor (run / connect / cleanup)
  runAfter,     \* what run does after cleanup: "ret" | "check"
  attempt,      \* number of connect attempts begun
  hbPc, hbStream,        \* heartbeatLoop of each connection
  csPc, csStream, csEnv, \* consume of each connection
  pubPc, pubRet, pubCtxDone, pubStream, pubSlot, pubWrote, \* PublishIngress callers
  pubSends,   \* number of stream.Send calls the caller's current call has entered
  deliverOut,   \* the envelopes subscribers have taken off c.deliverCh, in order
  broadcastOut,   \* the envelopes subscribers have taken off c.broadcastCh, in order
  retry,   \* the local retry of run: the next backoff interval (0 before run starts)
  fails,   \* number of backoff waits since run started or since the last successful connect
  drainCtxDone,   \* the context passed to the Drain calls is done
  drainRet,   \* what the Drain call of each caller returned ("none" before)
  drainWaited,   \* the waiting task of the Drain call has closed done
  inKinds,   \* the kinds of the frames the receive tasks have read, in stream order
  hbFailed,   \* whether the last heartbeat Send of a heartbeat task returned an
              \* error, in the workloads that watch the heartbeat Sends
  dialCancelled,   \* attempts whose dial context was cancelled by cancelDial
  \* ---- the transport
  connCancelled, \* per-connection contexts cancelled through their cancel function
  connOpen,      \* dialed transport connections not yet closed
  streamOpen,    \* streams opened
  sendClosed,    \* streams on which CloseSend was called
  registered,    \* streams whose Register frame was sent successfully
  writers,       \* per stream: the tasks inside stream.Send
  firstFrame,    \* per stream: the kind of the first frame written
  inbound,       \* number of frames the server has sent to the client
  panicked       \* "none", or the run-time panic that ended the process

clientVars == <<load, backpressure, topDone, startOnce, stopOnce, runCancel, runCancelled,
                cancel, conn, stream, started, closed, sendMu, inflight, wg,
                recvErr, recvErrBuf, deliverCh, broadcastCh, deliverClosed,
                broadcastClosed, startPc, startRet, closePc, closeTmp, closeRuns,
                supervisors, runPc, runAfter, attempt, hbPc, hbStream, csPc,
                csStream, csEnv, pubPc, pubRet, pubCtxDone, pubStream, pubSlot,
                pubWrote, connCancelled, connOpen, streamOpen, sendClosed,
                registered, writers, firstFrame, inbound, panicked, pubSends, deliverOut, broadcastOut, retry, fails, drainCtxDone, drainRet, drainWaited, inKinds, hbFailed, dialCancelled>>

lifeVars == <<load, backpressure, topDone, startOnce, stopOnce, runCancel, runCancelled,
              started, closed>>
connVars == <<cancel, conn, stream, recvErr, recvErrBuf, connCancelled, connOpen,
              streamOpen, sendClosed, registered, firstFrame, dialCancelled>>
chanVars == <<deliverCh, broadcastCh, deliverClosed, broadcastClosed, inbound, deliverOut, broadcastOut, inKinds>>
startVars == <<startPc, startRet, supervisors>>
closeVars == <<closePc, closeTmp, closeRuns, drainCtxDone, drainRet, drainWaited>>
runVars == <<runPc, runAfter, attempt, retry, fails>>
hbVars == <<hbPc, hbStream, hbFailed>>
csVars == <<csPc, csStream, csEnv>>
pubVars == <<pubPc, pubRet, pubCtxDone, pubStream, pubSlot, pubWrote, pubSends>>

\* ---- the Server of delivery.go:58-114 and the streams gRPC hands to it
VARIABLES
  serveLoad,     \* the application: streams offered, Close callers, cancellable ctx
  lis,           \* s.lis is set
  grpcServer,    \* s.grpcServer is set
  srvStopOnce,   \* s.stopOnce: "idle" | "running" | "done"
  lisState,      \* the listener: "none" | "open" | "closed"
  grpcState,     \* the grpc.Server: "none" | "new" | "serving" | "stopping" | "stopped"
  servePc,       \* position of the Serve call
  serveRet,      \* what Serve returned ("none" before)
  serveCtxDone,  \* the context passed to Serve is done
  scPc,          \* position of each Close call; caller 0 is the task Serve spawns
  stPc,          \* position of bridgeService.Stream on each stream
  stRet,         \* why each stream's handler returned ("none" before)
  stFrames       \* frames dispatched to the handler on each stream

handleVars == <<lis, grpcServer, srvStopOnce, lisState, grpcState>>
serveCallVars == <<servePc, serveRet, serveCtxDone>>
bridgeVars == <<stPc, stRet, stFrames>>
listenVars == <<serveLoad, handleVars, serveCallVars, scPc, bridgeVars>>

\* ---- the tokens of pkg/auth and the Redis keys behind them
VARIABLES
  authLoad,        \* the deployment: functions called, TTLs, ClockSkew
  now,             \* the time, in seconds
  tokenVersion,    \* value of the user's version key (0: never written)
  tokenVersionExp, \* when the version key expires (0: no TTL)
  simpleTokens,    \* the simple tokens issued to the user, in order
  simpleRevokes,   \* number of RevokeSimpleToken calls
  simpleVerify,    \* the last VerifySimpleToken call: token, result, and
                   \* whether the version had been incremented since its issue
  refreshKey,      \* the refresh token's key has been saved and not deleted
  rcPc, rcRet,     \* callers of ConsumeRefreshToken
  blockExp,        \* when the access token's blocklist key expires (0: no key)
  accRevoked,      \* RevokeAccessToken has succeeded on the access token
  accVerify        \* the last VerifyAccessToken call: result, and whether
                   \* the token had been revoked

simpleVars == <<tokenVersion, tokenVersionExp, simpleTokens, simpleRevokes,
                simpleVerify>>
refreshVars == <<refreshKey, rcPc, rcRet>>
accessVars == <<blockExp, accRevoked, accVerify>>
authVars == <<authLoad, now, simpleVars, refreshVars, accessVars>>

\* ---- an envelope handed to pkg/envelope
VARIABLES
  env,             \* the envelope NormalizeEnvelope is called on
  envCalls         \* number of NormalizeEnvelope calls made on it

envVars == <<env, envCalls>>

vars == <<ackVars, serverVars, clientVars, listenVars, authVars, envVars>>

(***************************************************************************)
(* Delivery.Ack, delivery.go:28-39.                                        *)
(***************************************************************************)
AckStart(bound) ==
  /\ ackFnBound = bound
  /\ ackOnce = "idle"
  /\ ackErr = "nil"
  /\ ackInvoked = <<>>
  /\ ackPc = [a \in AckCallers |-> "idle"]
  /\ ackRet = [a \in AckCallers |-> "none"]
  /\ ackRound = [a \in AckCallers |-> 0]

\* delivery.go:29-31: the nil checks; a call on an unbound Delivery returns nil
\* at once, any other call goes on to ackOnce.Do.
AckCall(a) ==
  /\ ackPc[a] = "idle"
  /\ ackRound[a] < MaxAckRounds
  /\ IF ackFnBound
       THEN /\ ackPc' = [ackPc EXCEPT ![a] = "do"]
            /\ UNCHANGED <<ackRet, ackRound>>
       ELSE /\ ackPc' = [ackPc EXCEPT ![a] = "idle"]
            /\ ackRet' = [ackRet EXCEPT ![a] = "nil"]
            /\ ackRound' = [ackRound EXCEPT ![a] = @ + 1]
  /\ UNCHANGED <<ackFnBound, ackOnce, ackErr, ackInvoked, serverVars, clientVars, listenVars, authVars, envVars>>

\* A broken one-shot guard: the function is entered whenever no invocation is
\* running, also after one has completed.
AckOnceEnterRetry(a) ==
  /\ ackPc[a] = "do"
  /\ ackOnce # "running"
  /\ ackOnce' = "running"
  /\ \E r \in AckResults : ackInvoked' = Append(ackInvoked, r)
  /\ ackPc' = [ackPc EXCEPT ![a] = "infn"]
  /\ UNCHANGED <<ackFnBound, ackErr, ackRet, ackRound, serverVars, clientVars, listenVars, authVars, envVars>>

\* delivery.go:35-37: ackOnce.Do: the first caller enters the function, which
\* is invoked here (its result is drawn from AckResults).
AckOnceEnter(a) ==
  /\ ackPc[a] = "do"
  /\ ackOnce = "idle"
  /\ ackOnce' = "running"
  /\ \E r \in AckResults : ackInvoked' = Append(ackInvoked, r)
  /\ ackPc' = [ackPc EXCEPT ![a] = "infn"]
  /\ UNCHANGED <<ackFnBound, ackErr, ackRet, ackRound, serverVars, clientVars, listenVars, authVars, envVars>>

\* delivery.go:36: the function returns and its result is stored in d.ackErr;
\* the Once is marked done.
AckFnReturn(a) ==
  /\ ackPc[a] = "infn"
  /\ ackErr' = ackInvoked[Len(ackInvoked)]
  /\ ackOnce' = "done"
  /\ ackPc' = [ackPc EXCEPT ![a] = "read"]
  /\ UNCHANGED <<ackFnBound, ackInvoked, ackRet, ackRound, serverVars, clientVars, listenVars, authVars, envVars>>

\* delivery.go:35: ackOnce.Do for a later caller: it waits until the first
\* invocation has completed and then skips the function.
AckOnceSkip(a) ==
  /\ ackPc[a] = "do"
  /\ ackOnce = "done"
  /\ ackPc' = [ackPc EXCEPT ![a] = "read"]
  /\ UNCHANGED <<ackFnBound, ackOnce, ackErr, ackInvoked, ackRet, ackRound, serverVars, clientVars, listenVars, authVars, envVars>>

\* delivery.go:38: return d.ackErr.
AckReturn(a) ==
  /\ ackPc[a] = "read"
  /\ ackRet' = [ackRet EXCEPT ![a] = ackErr]
  /\ ackRound' = [ackRound EXCEPT ![a] = @ + 1]
  /\ ackPc' = [ackPc EXCEPT ![a] = "idle"]
  /\ UNCHANGED <<ackFnBound, ackOnce, ackErr, ackInvoked, serverVars, clientVars, listenVars, authVars, envVars>>

Ack(a) ==
  \/ AckCall(a)
  \/ AckOnceEnter(a)
  \/ AckFnReturn(a)
  \/ AckOnceSkip(a)
  \/ AckReturn(a)

AckNext == \E a \in AckCallers : Ack(a)

(***************************************************************************)
(* The server side of one stream: bridgeService.Stream, delivery.go:158-209,*)
(* and the session handed to the handler, delivery.go:121-156.             *)
(***************************************************************************)
Metas == {"m1", "m2"}

\* The client-to-server frame union (spec section 6): a payload kind and its
\* content.  An Ingress frame may lack its envelope, an Ack frame its body,
\* and a frame may carry no payload at all.
SrvFrames ==
  [kind : {"Register"}, arg : Metas]
    \cup [kind : {"Ingress"}, arg : {"env", "nil"}]
    \cup [kind : {"Ack"}, arg : {"ack", "nil"}]
    \cup [kind : {"Heartbeat"}, arg : {"nonce"}]
    \cup [kind : {"Empty"}, arg : {"nil"}]

NoFrame == [kind |-> "none", arg |-> "nil"]

\* A getter that returns the frame's content whatever its kind.
GetRegisterAnyKind(f) == f.arg

\* delivery.go:164: first.GetRegister(): the Register payload, nil for a frame
\* of any other kind.
GetRegister(f) == IF f.kind = "Register" THEN f.arg ELSE "nil"

\* A dispatch that also honours a Register frame on a registered stream.
HandlerForReRegister(f) ==
  CASE f.kind = "Ingress" /\ f.arg # "nil" -> "OnIngress"
    [] f.kind = "Ack" /\ f.arg # "nil" -> "OnAck"
    [] f.kind = "Heartbeat" -> "OnHeartbeat"
    [] f.kind = "Register" -> "OnRegister"
    [] OTHER -> "none"

\* delivery.go:183-207: the type switch of the serving loop: the callback a
\* frame is dispatched to, "none" for a frame that is skipped.
HandlerFor(f) ==
  CASE f.kind = "Ingress" /\ f.arg # "nil" -> "OnIngress"
    [] f.kind = "Ack" /\ f.arg # "nil" -> "OnAck"
    [] f.kind = "Heartbeat" -> "OnHeartbeat"
    [] OTHER -> "none"

ServerStart ==
  /\ svPc = "recvFirst"
  /\ svFirst = NoFrame
  /\ svCur = NoFrame
  /\ svFrames = 0
  /\ svMeta = "none"
  /\ svLog = <<>>
  /\ svPending = "none"
  /\ svRet = "none"
  /\ sessMu = 0
  /\ sessWriters = {}
  /\ sndPc = [s \in Senders |-> "idle"]
  /\ sndKind = [s \in Senders |-> "none"]
  /\ metaRead = "none"

sessVars == <<sessMu, sessWriters, sndPc, sndKind, metaRead>>

\* delivery.go:160-163: the first Recv fails: Stream returns the error.
StreamFirstRecvError ==
  /\ svPc = "recvFirst"
  /\ svPc' = "returned"
  /\ svRet' = "errRecv"
  /\ UNCHANGED <<svFirst, svCur, svFrames, svMeta, svLog, svPending, sessVars, ackVars, clientVars, listenVars, authVars, envVars>>

\* delivery.go:160-177: the first frame: rejected unless it is a Register
\* frame; otherwise the session is built and OnRegister is invoked.
StreamFirstFrame ==
  /\ svPc = "recvFirst"
  /\ \E f \in SrvFrames :
       /\ svFirst' = f
       /\ svCur' = f
       /\ svFrames' = 1
       /\ IF GetRegister(f) = "nil"
            THEN /\ svPc' = "returned"
                 /\ svRet' = "errRegisterRequired"
                 /\ UNCHANGED <<svMeta, svLog>>
            ELSE /\ svMeta' = GetRegister(f)
                 /\ svLog' = Append(svLog, "OnRegister")
                 /\ svPc' = "onRegister"
                 /\ UNCHANGED svRet
  /\ UNCHANGED <<svPending, sessVars, ackVars, clientVars, listenVars, authVars, envVars>>

\* delivery.go:174-177: OnRegister returns: an error ends the stream (before
\* OnClose is deferred), nil enters the serving loop.
OnRegisterReturn ==
  /\ svPc = "onRegister"
  /\ \/ /\ svPc' = "recv"
        /\ UNCHANGED svRet
     \/ /\ svPc' = "returned"
        /\ svRet' = "errOnRegister"
  /\ UNCHANGED <<svFirst, svCur, svFrames, svMeta, svLog, svPending, sessVars, ackVars, clientVars, listenVars, authVars, envVars>>

\* delivery.go:179-182 with the deferred call of line 177: a Recv error ends
\* the loop; OnClose is invoked on the way out.
StreamRecvError ==
  /\ svPc = "recv"
  /\ svPending' = "errRecv"
  /\ svLog' = Append(svLog, "OnClose")
  /\ svPc' = "onClose"
  /\ UNCHANGED <<svFirst, svCur, svFrames, svMeta, svRet, sessVars, ackVars, clientVars, listenVars, authVars, envVars>>

\* A loop that ends the stream on an Ingress frame without an envelope.
StreamRecvFrameStrict ==
  /\ svPc = "recv"
  /\ svFrames < MaxSrvFrames
  /\ \E f \in SrvFrames :
       /\ svCur' = f
       /\ svFrames' = svFrames + 1
       /\ IF f.kind = "Ingress" /\ f.arg = "nil"
            THEN /\ svPending' = "errRecv"
                 /\ svLog' = Append(svLog, "OnClose")
                 /\ svPc' = "onClose"
            ELSE /\ UNCHANGED svPending
                 /\ IF HandlerFor(f) = "none"
                      THEN UNCHANGED <<svPc, svLog>>
                      ELSE /\ svLog' = Append(svLog, HandlerFor(f))
                           /\ svPc' = "handler"
  /\ UNCHANGED <<svFirst, svMeta, svRet, sessVars, ackVars, clientVars, listenVars, authVars, envVars>>

\* delivery.go:179-207: a frame is read and dispatched by its type.
StreamRecvFrame ==
  /\ svPc = "recv"
  /\ svFrames < MaxSrvFrames
  /\ \E f \in SrvFrames :
       /\ svCur' = f
       /\ svFrames' = svFrames + 1
       /\ IF HandlerFor(f) = "none"
            THEN UNCHANGED <<svPc, svLog>>
            ELSE /\ svLog' = Append(svLog, HandlerFor(f))
                 /\ svPc' = "handler"
  /\ UNCHANGED <<svFirst, svMeta, svPending, svRet, sessVars, ackVars, clientVars, listenVars, authVars, envVars>>

\* A loop that notes the callback's error and goes on reading frames.
HandlerReturnKeepServing ==
  /\ svPc = "handler"
  /\ \/ /\ svPc' = "recv"
        /\ UNCHANGED <<svLog, svPending>>
     \/ /\ svPending' = "err" \o svLog[Len(svLog)]
        /\ svPc' = "recv"
        /\ UNCHANGED svLog
  /\ UNCHANGED <<svFirst, svCur, svFrames, svMeta, svRet, sessVars, ackVars, clientVars, listenVars, authVars, envVars>>

\* delivery.go:186-204: the callback returns: nil continues the loop, an error
\* is returned (OnClose is invoked on the way out, line 177).
HandlerReturn ==
  /\ svPc = "handler"
  /\ \/ /\ svPc' = "recv"
        /\ UNCHANGED <<svLog, svPending>>
     \/ /\ svPending' = "err" \o svLog[Len(svLog)]
        /\ svLog' = Append(svLog, "OnClose")
        /\ svPc' = "onClose"
  /\ UNCHANGED <<svFirst, svCur, svFrames, svMeta, svRet, sessVars, ackVars, clientVars, listenVars, authVars, envVars>>

\* An OnClose after which the serving loop is resumed.
OnCloseReturnResume ==
  /\ svPc = "onClose"
  /\ svPc' = "recv"
  /\ svRet' = "none"
  /\ UNCHANGED <<svFirst, svCur, svFrames, svMeta, svLog, svPending, sessVars, ackVars, clientVars, listenVars, authVars, envVars>>

\* delivery.go:177: the deferred OnClose returns (its result is dropped) and
\* Stream returns the pending error.
OnCloseReturn ==
  /\ svPc = "onClose"
  /\ svPc' = "returned"
  /\ svRet' = svPending
  /\ UNCHANGED <<svFirst, svCur, svFrames, svMeta, svLog, svPending, sessVars, ackVars, clientVars, listenVars, authVars, envVars>>

Stream ==
  \/ StreamFirstRecvError
  \/ StreamFirstFrame
  \/ OnRegisterReturn
  \/ StreamRecvError
  \/ StreamRecvFrame
  \/ HandlerReturn
  \/ OnCloseReturn

streamVars == <<svPc, svFirst, svCur, svFrames, svMeta, svLog, svPending, svRet>>

\* delivery.go:127-142: SendDeliver / SendBroadcast / SendHeartbeat build the
\* frame and call send; the session exists once the stream is registered.
SendCall(s) ==
  /\ svMeta # "none"
  /\ sndPc[s] = "idle"
  /\ \E k \in {"Deliver", "Broadcast", "Heartbeat"} :
       sndKind' = [sndKind EXCEPT ![s] = k]
  /\ sndPc' = [sndPc EXCEPT ![s] = "lock"]
  /\ UNCHANGED <<sessMu, sessWriters, metaRead, streamVars, ackVars, clientVars, listenVars, authVars, envVars>>

\* A send that enters the stream write without taking the lock.
sendNoLock(s) ==
  /\ sndPc[s] = "lock"
  /\ sessWriters' = sessWriters \cup {s}
  /\ sndPc' = [sndPc EXCEPT ![s] = "write"]
  /\ UNCHANGED <<sessMu, sndKind, metaRead, streamVars, ackVars, clientVars, listenVars, authVars, envVars>>

\* delivery.go:145,147: sendMu.Lock(), then the caller enters stream.Send.
sendLock(s) ==
  /\ sndPc[s] = "lock"
  /\ sessMu = 0
  /\ sessMu' = s
  /\ sessWriters' = sessWriters \cup {s}
  /\ sndPc' = [sndPc EXCEPT ![s] = "write"]
  /\ UNCHANGED <<sndKind, metaRead, streamVars, ackVars, clientVars, listenVars, authVars, envVars>>

\* delivery.go:146-147: stream.Send returns (with or without an error) and the
\* deferred Unlock runs.
sendUnlock(s) ==
  /\ sndPc[s] = "write"
  /\ sessWriters' = sessWriters \ {s}
  /\ sessMu' = IF sessMu = s THEN 0 ELSE sessMu
  /\ sndPc' = [sndPc EXCEPT ![s] = "idle"]
  /\ sndKind' = [sndKind EXCEPT ![s] = "none"]
  /\ UNCHANGED <<metaRead, streamVars, ackVars, clientVars, listenVars, authVars, envVars>>

\* delivery.go:150-152: Metadata() returns s.meta.
Metadata ==
  /\ svMeta # "none"
  /\ metaRead # svMeta
  /\ metaRead' = svMeta
  /\ UNCHANGED <<sessMu, sessWriters, sndPc, sndKind, streamVars, ackVars, clientVars, listenVars, authVars, envVars>>

ServerNext ==
  \/ Stream
  \/ Metadata
  \/ \E s \in Senders : SendCall(s) \/ sendLock(s) \/ sendUnlock(s)

(***************************************************************************)
(* The client, unnamed/part_003.                                           *)
(***************************************************************************)
\* The applications the client is checked with: how many tasks call Start,
\* Close and PublishIngress, how many connect attempts and inbound frames the
\* run sees, and which contexts get cancelled.  In turn: concurrent Start
\* calls under a context that may be cancelled; concurrent Close calls on a
\* client that receives frames; concurrent publishers on one connection;
\* a publisher across reconnects; subscribers of one connection that
\* receives a run of frames, with the buffer options set and then left at
\* zero; a subscriber across reconnects; a server that fails and drops
\* connections, under three settings of ReconnectBackoff and
\* MaxReconnectBackoff; concurrent Drain calls (a load with drain set calls
\* Drain where the others call Close) under a context that may expire, and
\* under one that has expired before the calls; a client across reconnects
\* whose heartbeat Sends are watched; a client configured with a
\* ReconnectBackoff above its MaxReconnectBackoff.
Loads ==
  { [starters |-> NumStarters, closers |-> 0, publishers |-> 0,
     connects |-> 1, inbound |-> 0, cancelTop |-> TRUE, pubCancel |-> FALSE,
     backoff |-> 0, maxBackoff |-> 0,
     drain |-> FALSE, drainExpired |-> FALSE,
     deliverBuffer |-> DeliverBuffer, broadcastBuffer |-> BroadcastBuffer,
     watchHeartbeat |-> FALSE],
    [starters |-> 1, closers |-> NumClosers, publishers |-> 0,
     connects |-> 1, inbound |-> MaxInbound, cancelTop |-> FALSE,
     pubCancel |-> FALSE,
     backoff |-> 0, maxBackoff |-> 0,
     drain |-> FALSE, drainExpired |-> FALSE,
     deliverBuffer |-> DeliverBuffer, broadcastBuffer |-> BroadcastBuffer,
     watchHeartbeat |-> FALSE],
    [starters |-> 1, closers |-> 0, publishers |-> NumPublishers,
     connects |-> 1, inbound |-> 0, cancelTop |-> FALSE, pubCancel |-> TRUE,
     backoff |-> 0, maxBackoff |-> 0,
     drain |-> FALSE, drainExpired |-> FALSE,
     deliverBuffer |-> DeliverBuffer, broadcastBuffer |-> BroadcastBuffer,
     watchHeartbeat |-> FALSE],
    [starters |-> 1, closers |-> 0, publishers |-> 1,
     connects |-> MaxConnects, inbound |-> 0, cancelTop |-> FALSE,
     pubCancel |-> FALSE,
     backoff |-> 0, maxBackoff |-> 0,
     drain |-> FALSE, drainExpired |-> FALSE,
     deliverBuffer |-> DeliverBuffer, broadcastBuffer |-> BroadcastBuffer,
     watchHeartbeat |-> FALSE],
    [starters |-> 1, closers |-> 0, publishers |-> 0,
     connects |-> 1, inbound |-> MaxStreamFrames, cancelTop |-> FALSE,
     pubCancel |-> FALSE,
     backoff |-> 0, maxBackoff |-> 0,
     drain |-> FALSE, drainExpired |-> FALSE,
     deliverBuffer |-> DeliverBuffer, broadcastBuffer |-> BroadcastBuffer,
     watchHeartbeat |-> FALSE],
    [starters |-> 1, closers |-> 0, publishers |-> 0,
     connects |-> 1, inbound |-> MaxStreamFrames, cancelTop |-> FALSE,
     pubCancel |-> FALSE,
     backoff |-> 0, maxBackoff |-> 0,
     drain |-> FALSE, drainExpired |-> FALSE,
     deliverBuffer |-> 0, broadcastBuffer |-> 0,
     watchHeartbeat |-> FALSE],
    [starters |-> 1, closers |-> 0, publishers |-> 0,
     connects |-> MaxConnects, inbound |-> MaxInbound, cancelTop |-> FALSE,
     pubCancel |-> FALSE,
     backoff |-> 0, maxBackoff |-> 0,
     drain |-> FALSE, drainExpired |-> FALSE,
     deliverBuffer |-> DeliverBuffer, broadcastBuffer |-> BroadcastBuffer,
     watchHeartbeat |-> FALSE],
    [starters |-> 1, closers |-> 0, publishers |-> 0,
     connects |-> MaxAttempts, inbound |-> 0, cancelTop |-> FALSE,
     pubCancel |-> FALSE,
     backoff |-> 0, maxBackoff |-> 0,
     drain |-> FALSE, drainExpired |-> FALSE,
     deliverBuffer |-> DeliverBuffer, broadcastBuffer |-> BroadcastBuffer,
     watchHeartbeat |-> FALSE],
    [starters |-> 1, closers |-> 0, publishers |-> 0,
     connects |-> MaxAttempts, inbound |-> 0, cancelTop |-> FALSE,
     pubCancel |-> FALSE,
     backoff |-> 1, maxBackoff |-> 3,
     drain |-> FALSE, drainExpired |-> FALSE,
     deliverBuffer |-> DeliverBuffer, broadcastBuffer |-> BroadcastBuffer,
     watchHeartbeat |-> FALSE],
    [starters |-> 1, closers |-> 0, publishers |-> 0,
     connects |-> MaxAttempts, inbound |-> 0, cancelTop |-> FALSE,
     pubCancel |-> FALSE,
     backoff |-> 2, maxBackoff |-> 2,
     drain |-> FALSE, drainExpired |-> FALSE,
     deliverBuffer |-> DeliverBuffer, broadcastBuffer |-> BroadcastBuffer,
     watchHeartbeat |-> FALSE],
    [starters |-> 1, closers |-> NumClosers, publishers |-> 0,
     connects |-> 1, inbound |-> 0, cancelTop |-> FALSE,
     pubCancel |-> FALSE,
     backoff |-> 0, maxBackoff |-> 0,
     drain |-> TRUE, drainExpired |-> FALSE,
     deliverBuffer |-> DeliverBuffer, broadcastBuffer |-> BroadcastBuffer,
     watchHeartbeat |-> FALSE],
    [starters |-> 1, closers |-> NumClosers, publishers |-> 0,
     connects |-> 1, inbound |-> 0, cancelTop |-> FALSE,
     pubCancel |-> FALSE,
     backoff |-> 0, maxBackoff |-> 0,
     drain |-> TRUE, drainExpired |-> TRUE,
     deliverBuffer |-> DeliverBuffer, broadcastBuffer |-> BroadcastBuffer,
     watchHeartbeat |-> FALSE],
    [starters |-> 1, closers |-> 0, publishers |-> 0,
     connects |-> MaxConnects, inbound |-> 0, cancelTop |-> TRUE,
     pubCancel |-> FALSE,
     backoff |-> 0, maxBackoff |-> 0,
     drain |-> FALSE, drainExpired |-> FALSE,
     deliverBuffer |-> DeliverBuffer, broadcastBuffer |-> BroadcastBuffer,
     watchHeartbeat |-> TRUE],
    [starters |-> 1, closers |-> 0, publishers |-> 0,
     connects |-> MaxConnects, inbound |-> 0, cancelTop |-> FALSE,
     pubCancel |-> FALSE,
     backoff |-> 3, maxBackoff |-> 2,
     drain |-> FALSE, drainExpired |-> FALSE,
     deliverBuffer |-> DeliverBuffer, broadcastBuffer |-> BroadcastBuffer,
     watchHeartbeat |-> FALSE] }

NoLoad ==
  [starters |-> 0, closers |-> 0, publishers |-> 0, connects |-> 0,
   inbound |-> 0, cancelTop |-> FALSE, pubCancel |-> FALSE,
   backoff |-> 0, maxBackoff |-> 0, drain |-> FALSE, drainExpired |-> FALSE,
   deliverBuffer |-> DeliverBuffer, broadcastBuffer |-> BroadcastBuffer,
   watchHeartbeat |-> FALSE]

\* part_003:60-62,74: the capacity of c.deliverCh.
DeliverCap ==
  IF load.deliverBuffer <= 0 THEN DefaultBuffer ELSE load.deliverBuffer

\* part_003:63-65,75: the capacity of c.broadcastCh.
BroadcastCap ==
  IF load.broadcastBuffer <= 0 THEN DefaultBuffer ELSE load.broadcastBuffer

\* part_003:97-100,120-123: the base interval of the backoff.
BaseRetry ==
  IF load.backoff <= 0 THEN DefaultReconnectBackoff ELSE load.backoff

\* part_003:101-104: maxRetry, the ceiling of the backoff.
MaxRetry ==
  IF load.maxBackoff <= 0 THEN DefaultMaxReconnectBackoff ELSE load.maxBackoff

\* part_003:111-116: the interval after a wait of r: doubled, up to the
\* ceiling, unless r has reached the ceiling already.
NextRetry(r) ==
  IF r < MaxRetry
    THEN (IF r * 2 > MaxRetry THEN MaxRetry ELSE r * 2)
    ELSE r

NoProc == <<"none", 0>>
RunProc == <<"run", 0>>
HbProc(k) == <<"hb", k>>
PubProc(p) == <<"pub", p>>

\* The context run was started with (part_003:87) is done.
RunCtxDone == topDone \/ runCancelled

\* The context of connection attempt k (part_003:138) is done.
CtxDone(k) == k \in connCancelled \/ RunCtxDone

\* The context the stream of attempt k was opened under is done: streamCtx is
\* dctx (part_003:166-171), the child of the attempt's context that
\* cancelDial cancels (part_003:159-161).
StreamCtxDone(k) == k \in dialCancelled \/ CtxDone(k)

\* A run-time panic ends the process: no task takes a step after it.
Alive == panicked = "none"

\* part_003:72-80: the client NewClient returns; the contexts of its callers
\* are not cancelled yet.
ClientStart(l, bp) ==
  /\ load = l
  /\ backpressure = bp
  /\ topDone = FALSE
  /\ startOnce = "idle"
  /\ stopOnce = "idle"
  /\ runCancel = FALSE
  /\ runCancelled = FALSE
  /\ cancel = 0
  /\ conn = 0
  /\ stream = 0
  /\ started = FALSE
  /\ closed = FALSE
  /\ sendMu = NoProc
  /\ inflight = 0
  /\ wg = 0
  /\ recvErr = 0
  /\ recvErrBuf = [k \in Conns |-> 0]
  /\ deliverCh = <<>>
  /\ broadcastCh = <<>>
  /\ deliverClosed = 0
  /\ broadcastClosed = 0
  /\ startPc = [s \in Starters |-> "idle"]
  /\ startRet = [s \in Starters |-> "none"]
  /\ closePc = [c \in Closers |-> "idle"]
  /\ closeTmp = 0
  /\ closeRuns = 0
  /\ supervisors = 0
  /\ runPc = "none"
  /\ runAfter = "ret"
  /\ attempt = 0
  /\ hbPc = [k \in Conns |-> "none"]
  /\ hbStream = [k \in Conns |-> 0]
  /\ csPc = [k \in Conns |-> "none"]
  /\ csStream = [k \in Conns |-> 0]
  /\ csEnv = [k \in Conns |-> 0]
  /\ pubPc = [p \in Publishers |-> "idle"]
  /\ pubRet = [p \in Publishers |-> "none"]
  /\ pubCtxDone = [p \in Publishers |-> FALSE]
  /\ pubStream = [p \in Publishers |-> 0]
  /\ pubSlot = [p \in Publishers |-> FALSE]
  /\ pubWrote = [p \in Publishers |-> FALSE]
  /\ connCancelled = {}
  /\ connOpen = {}
  /\ streamOpen = {}
  /\ sendClosed = {}
  /\ registered = {}
  /\ writers = [k \in Conns |-> {}]
  /\ firstFrame = [k \in Conns |-> "none"]
  /\ inbound = 0
  /\ panicked = "none"
  /\ dialCancelled = {}
  /\ hbFailed = [k \in Conns |-> FALSE]
  /\ inKinds = <<>>
  /\ drainWaited = [c \in Closers |-> FALSE]
  /\ drainRet = [c \in Closers |-> "none"]
  /\ drainCtxDone = l.drainExpired
  /\ fails = 0
  /\ retry = 0
  /\ broadcastOut = <<>>
  /\ deliverOut = <<>>
  /\ pubSends = [p \in Publishers |-> 0]

\* The write of a frame of the given kind by task w begins on stream k.
BeginWrite(k, w) == [writers EXCEPT ![k] = @ \cup {w}]

EndWrite(k, w) == [writers EXCEPT ![k] = @ \ {w}]

\* The first frame written to stream k, once a write of the kind completed.
NoteFrame(k, kind) ==
  [firstFrame EXCEPT ![k] = IF @ = "none" THEN kind ELSE @]

\* A Start without the one-shot guard: every call runs the body.
StartOnceEveryCall(s) ==
  /\ Alive
  /\ s <= load.starters
  /\ startPc[s] = "idle"
  /\ startOnce # "running"
  /\ startOnce' = "running"
  /\ runCancel' = TRUE
  /\ startPc' = [startPc EXCEPT ![s] = "spawn"]
  /\ UNCHANGED <<load, backpressure, topDone, stopOnce, runCancelled,
                 connVars, started, closed, sendMu, inflight, wg, chanVars,
                 startRet, closeVars, supervisors, runVars, hbVars, csVars,
                 pubVars, writers, panicked, ackVars, serverVars, listenVars, authVars, envVars>>

\* part_003:86-88: startOnce.Do, first caller: the run context is derived and
\* its cancel function stored in c.runCancel.
StartOnce(s) ==
  /\ Alive
  /\ s <= load.starters
  /\ startPc[s] = "idle"
  /\ startOnce = "idle"
  /\ startOnce' = "running"
  /\ runCancel' = TRUE
  /\ startPc' = [startPc EXCEPT ![s] = "spawn"]
  /\ UNCHANGED <<load, backpressure, topDone, stopOnce, runCancelled,
                 connVars, started, closed, sendMu, inflight, wg, chanVars,
                 startRet, closeVars, supervisors, runVars, hbVars, csVars,
                 pubVars, writers, panicked, ackVars, serverVars, listenVars, authVars, envVars>>

\* part_003:89-92,97-104: wg.Add(1); go c.run(runCtx), which sets up its
\* backoff interval; Start returns err, which was never assigned.
StartSpawn(s) ==
  /\ Alive
  /\ startPc[s] = "spawn"
  /\ wg' = wg + 1
  /\ supervisors' = supervisors + 1
  /\ runPc' = "loop"
  /\ retry' = BaseRetry
  /\ startOnce' = "done"
  /\ startPc' = [startPc EXCEPT ![s] = "done"]
  /\ startRet' = [startRet EXCEPT ![s] = "nil"]
  /\ UNCHANGED <<load, backpressure, topDone, stopOnce, runCancel,
                 runCancelled, connVars, started, closed, sendMu, inflight,
                 chanVars, closeVars, runAfter, attempt, hbVars, csVars,
                 pubVars, writers, panicked, fails, ackVars, serverVars, listenVars, authVars, envVars>>

\* part_003:86,92: startOnce.Do for a later caller (it waits while the first
\* caller is inside the body), then return err.
StartSkip(s) ==
  /\ Alive
  /\ s <= load.starters
  /\ startPc[s] = "idle"
  /\ startOnce = "done"
  /\ startPc' = [startPc EXCEPT ![s] = "done"]
  /\ startRet' = [startRet EXCEPT ![s] = "nil"]
  /\ UNCHANGED <<lifeVars, connVars, sendMu, inflight, wg, chanVars,
                 closeVars, supervisors, runVars, hbVars, csVars, pubVars,
                 writers, panicked, ackVars, serverVars, listenVars, authVars, envVars>>

Start(s) == StartOnce(s) \/ StartSpawn(s) \/ StartSkip(s)

\* part_003:105-106,138-139: a connect attempt begins: its context is derived
\* and the cancel function stored in c.cancel.
connectBegin ==
  /\ Alive
  /\ runPc = "loop"
  /\ attempt < load.connects
  /\ attempt' = attempt + 1
  /\ cancel' = attempt + 1
  /\ runPc' = "dial"
  /\ UNCHANGED <<lifeVars, conn, stream, sendMu, inflight, wg, recvErr,
                 recvErrBuf, chanVars, startVars, closeVars, runAfter, hbVars,
                 csVars, pubVars, connCancelled, connOpen, streamOpen,
                 sendClosed, registered, writers, firstFrame, panicked,
                 retry, fails, dialCancelled, ackVars, serverVars, listenVars, authVars, envVars>>

\* part_003:158-164: grpc.DialContext returns under the dial context, which
\* cancelDial then cancels: an error ends the attempt, otherwise the
\* connection is stored in c.conn.
connectDial ==
  /\ Alive
  /\ runPc = "dial"
  /\ dialCancelled' = dialCancelled \cup {attempt}
  /\ \/ /\ runPc' = "backoff"
        /\ UNCHANGED <<conn, connOpen>>
     \/ /\ conn' = attempt
        /\ connOpen' = connOpen \cup {attempt}
        /\ runPc' = "stream"
  /\ UNCHANGED <<lifeVars, cancel, stream, sendMu, inflight, wg, recvErr,
                 recvErrBuf, chanVars, startVars, closeVars, runAfter,
                 attempt, hbVars, csVars, pubVars, connCancelled, streamOpen,
                 sendClosed, registered, writers, firstFrame, panicked,
                 retry, fails, ackVars, serverVars, listenVars, authVars, envVars>>

\* part_003:166-175: client.Stream is called under the dial context (with the
\* metadata attached, if any) and returns: an error ends the attempt,
\* otherwise the stream is stored in c.stream.
connectStream ==
  /\ Alive
  /\ runPc = "stream"
  /\ \/ /\ runPc' = "backoff"
        /\ UNCHANGED <<stream, streamOpen>>
     \/ /\ stream' = attempt
        /\ streamOpen' = streamOpen \cup {attempt}
        /\ runPc' = "register"
  /\ UNCHANGED <<lifeVars, cancel, conn, sendMu, inflight, wg, recvErr,
                 recvErrBuf, chanVars, startVars, closeVars, runAfter,
                 attempt, hbVars, csVars, pubVars, connCancelled, connOpen,
                 sendClosed, registered, writers, firstFrame, panicked,
                 retry, fails, dialCancelled, ackVars, serverVars, listenVars, authVars, envVars>>

\* part_003:183: stream.Send(req) of the Register frame is entered; the send
\* lock is not taken.
connectRegister ==
  /\ Alive
  /\ runPc = "register"
  /\ writers' = BeginWrite(attempt, RunProc)
  /\ runPc' = "registering"
  /\ UNCHANGED <<lifeVars, connVars, sendMu, inflight, wg, chanVars,
                 startVars, closeVars, runAfter, attempt, hbVars, csVars,
                 pubVars, panicked, retry, fails, ackVars, serverVars, listenVars, authVars, envVars>>

\* part_003:183-185: the Send of the Register frame returns.
connectRegistered ==
  /\ Alive
  /\ runPc = "registering"
  /\ writers' = EndWrite(attempt, RunProc)
  /\ sendMu' = IF sendMu = RunProc THEN NoProc ELSE sendMu
  /\ \/ /\ runPc' = "backoff"
        /\ UNCHANGED <<registered, firstFrame>>
     \/ /\ registered' = registered \cup {attempt}
        /\ firstFrame' = NoteFrame(attempt, "Register")
        /\ runPc' = "spawn"
  /\ UNCHANGED <<lifeVars, cancel, conn, stream, inflight, wg, recvErr,
                 recvErrBuf, chanVars, startVars, closeVars, runAfter,
                 attempt, hbVars, csVars, pubVars, connCancelled, connOpen,
                 streamOpen, sendClosed, panicked, retry, fails, dialCancelled, ackVars, serverVars, listenVars, authVars, envVars>>

\* part_003:186-191,120-124: connect succeeds: started is set, a fresh recvErr
\* channel made, the heartbeat and receive tasks started; run resets the
\* backoff interval to its base and goes on to wait.
connectSpawn ==
  /\ Alive
  /\ runPc = "spawn"
  /\ started' = TRUE
  /\ recvErr' = attempt
  /\ wg' = wg + 1
  /\ hbPc' = [hbPc EXCEPT ![attempt] = "loop"]
  /\ csPc' = [csPc EXCEPT ![attempt] = "top"]
  /\ retry' = BaseRetry
  /\ fails' = 0
  /\ runPc' = "wait"
  /\ UNCHANGED <<load, backpressure, topDone, startOnce, stopOnce, runCancel,
                 runCancelled, cancel, conn, stream, closed, sendMu, inflight,
                 recvErrBuf, chanVars, startVars, closeVars, runAfter,
                 attempt, hbStream, csStream, csEnv, pubVars, connCancelled,
                 connOpen, streamOpen, sendClosed, registered, writers,
                 firstFrame, panicked, hbFailed, dialCancelled, ackVars, serverVars, listenVars, authVars, envVars>>

\* part_003:107-109: connect failed and the run context is done: run returns.
runBackoffCancelled ==
  /\ Alive
  /\ runPc = "backoff"
  /\ RunCtxDone
  /\ runPc' = "done"
  /\ wg' = wg - 1
  /\ UNCHANGED <<lifeVars, connVars, sendMu, inflight, chanVars, startVars,
                 closeVars, runAfter, attempt, hbVars, csVars, pubVars,
                 writers, panicked, retry, fails, ackVars, serverVars, listenVars, authVars, envVars>>

\* A backoff that doubles without a ceiling.
runBackoffElapsedUncapped ==
  /\ Alive
  /\ runPc = "backoff"
  /\ runPc' = "loop"
  /\ retry' = retry * 2
  /\ fails' = fails + 1
  /\ UNCHANGED <<lifeVars, connVars, sendMu, inflight, wg, chanVars,
                 startVars, closeVars, runAfter, attempt, hbVars, csVars,
                 pubVars, writers, panicked, ackVars, serverVars, listenVars, authVars, envVars>>

\* part_003:110-117: connect failed and the timer of time.After(retry) fires:
\* the interval is doubled up to the ceiling, next attempt.
runBackoffElapsed ==
  /\ Alive
  /\ runPc = "backoff"
  /\ runPc' = "loop"
  /\ retry' = NextRetry(retry)
  /\ fails' = fails + 1
  /\ UNCHANGED <<lifeVars, connVars, sendMu, inflight, wg, chanVars,
                 startVars, closeVars, runAfter, attempt, hbVars, csVars,
                 pubVars, writers, panicked, ackVars, serverVars, listenVars, authVars, envVars>>

\* part_003:124-127: connected, and the run context is done: cleanup, return.
runWaitCancelled ==
  /\ Alive
  /\ runPc = "wait"
  /\ RunCtxDone
  /\ runAfter' = "ret"
  /\ runPc' = "cleanupCancel"
  /\ UNCHANGED <<lifeVars, connVars, sendMu, inflight, wg, chanVars,
                 startVars, closeVars, attempt, hbVars, csVars, pubVars,
                 writers, panicked, retry, fails, ackVars, serverVars, listenVars, authVars, envVars>>

\* part_003:128-129: connected, and the receive task reported an error.
runWaitRecvErr ==
  /\ Alive
  /\ runPc = "wait"
  /\ recvErr # 0
  /\ recvErrBuf[recvErr] > 0
  /\ recvErrBuf' = [recvErrBuf EXCEPT ![recvErr] = @ - 1]
  /\ runAfter' = "check"
  /\ runPc' = "cleanupCancel"
  /\ UNCHANGED <<lifeVars, cancel, conn, stream, sendMu, inflight, wg,
                 recvErr, chanVars, startVars, closeVars, attempt, hbVars,
                 csVars, pubVars, connCancelled, connOpen, streamOpen,
                 sendClosed, registered, writers, firstFrame, panicked,
                 retry, fails, dialCancelled, ackVars, serverVars, listenVars, authVars, envVars>>

\* part_003:288-291: cleanup cancels the connection context.
cleanupCancel ==
  /\ Alive
  /\ runPc = "cleanupCancel"
  /\ connCancelled' = IF cancel # 0 THEN connCancelled \cup {cancel} ELSE connCancelled
  /\ cancel' = 0
  /\ runPc' = "cleanupStream"
  /\ UNCHANGED <<lifeVars, conn, stream, sendMu, inflight, wg, recvErr,
                 recvErrBuf, chanVars, startVars, closeVars, runAfter,
                 attempt, hbVars, csVars, pubVars, connOpen, streamOpen,
                 sendClosed, registered, writers, firstFrame, panicked,
                 retry, fails, dialCancelled, ackVars, serverVars, listenVars, authVars, envVars>>

\* A cleanup that leaves the stream as it is.
cleanupStreamKeep ==
  /\ Alive
  /\ runPc = "cleanupStream"
  /\ runPc' = "cleanupConn"
  /\ UNCHANGED <<lifeVars, connVars, sendMu, inflight, wg, chanVars,
                 startVars, closeVars, runAfter, attempt, retry, fails,
                 hbVars, csVars, pubVars, writers, panicked, ackVars,
                 serverVars, listenVars, authVars, envVars>>

\* part_003:292-295: cleanup closes the stream's send half and drops it.
cleanupStream ==
  /\ Alive
  /\ runPc = "cleanupStream"
  /\ sendClosed' = IF stream # 0 THEN sendClosed \cup {stream} ELSE sendClosed
  /\ stream' = 0
  /\ runPc' = "cleanupConn"
  /\ UNCHANGED <<lifeVars, cancel, conn, sendMu, inflight, wg, recvErr,
                 recvErrBuf, chanVars, startVars, closeVars, runAfter,
                 attempt, hbVars, csVars, pubVars, connCancelled, connOpen,
                 streamOpen, registered, writers, firstFrame, panicked,
                 retry, fails, dialCancelled, ackVars, serverVars, listenVars, authVars, envVars>>

\* part_003:296-299 and 126-127,129: cleanup closes the connection; run then
\* returns (after a cancellation) or goes on to check the context.
cleanupConn ==
  /\ Alive
  /\ runPc = "cleanupConn"
  /\ connOpen' = connOpen \ {conn}
  /\ conn' = 0
  /\ IF runAfter = "ret"
       THEN /\ runPc' = "done"
            /\ wg' = wg - 1
       ELSE /\ runPc' = "check"
            /\ UNCHANGED wg
  /\ UNCHANGED <<lifeVars, cancel, stream, sendMu, inflight, recvErr,
                 recvErrBuf, chanVars, startVars, closeVars, runAfter,
                 attempt, hbVars, csVars, pubVars, connCancelled, streamOpen,
                 sendClosed, registered, writers, firstFrame, panicked,
                 retry, fails, dialCancelled, ackVars, serverVars, listenVars, authVars, envVars>>

\* part_003:130-133: after a receive error: return if the run context is done,
\* else loop to the next connect attempt.
runCheck ==
  /\ Alive
  /\ runPc = "check"
  /\ IF RunCtxDone
       THEN /\ runPc' = "done"
            /\ wg' = wg - 1
       ELSE /\ runPc' = "loop"
            /\ UNCHANGED wg
  /\ UNCHANGED <<lifeVars, connVars, sendMu, inflight, chanVars, startVars,
                 closeVars, runAfter, attempt, hbVars, csVars, pubVars,
                 writers, panicked, retry, fails, ackVars, serverVars, listenVars, authVars, envVars>>

connect ==
  \/ connectBegin
  \/ connectDial
  \/ connectStream
  \/ connectRegister
  \/ connectRegistered
  \/ connectSpawn

cleanup == cleanupCancel \/ cleanupStream \/ cleanupConn

run ==
  \/ connect
  \/ runBackoffCancelled
  \/ runBackoffElapsed
  \/ runWaitCancelled
  \/ runWaitRecvErr
  \/ cleanup
  \/ runCheck

\* part_003:312-313,321-326: a tick: sendHeartbeat (started is set by the time
\* the task runs) takes the send lock and enters c.stream.Send; a nil
\* c.stream is a nil dereference.
sendHeartbeat(k) ==
  /\ Alive
  /\ hbPc[k] = "loop"
  /\ started
  /\ sendMu = NoProc
  /\ sendMu' = HbProc(k)
  /\ IF stream = 0
       THEN /\ panicked' = "nil stream"
            /\ UNCHANGED <<hbStream, writers, hbPc>>
       ELSE /\ hbStream' = [hbStream EXCEPT ![k] = stream]
            /\ writers' = BeginWrite(stream, HbProc(k))
            /\ hbPc' = [hbPc EXCEPT ![k] = "send"]
            /\ UNCHANGED panicked
  /\ UNCHANGED <<lifeVars, connVars, inflight, wg, chanVars, startVars,
                 closeVars, runVars, csVars, pubVars, hbFailed, ackVars, serverVars, listenVars, authVars, envVars>>

\* A heartbeat task that returns when its Send fails.
sendHeartbeatDoneStop(k) ==
  /\ Alive
  /\ hbPc[k] = "send"
  /\ writers' = EndWrite(hbStream[k], HbProc(k))
  /\ sendMu' = NoProc
  /\ hbStream' = [hbStream EXCEPT ![k] = 0]
  /\ \/ /\ firstFrame' = NoteFrame(hbStream[k], "Heartbeat")
        /\ hbFailed' = [hbFailed EXCEPT ![k] = FALSE]
        /\ hbPc' = [hbPc EXCEPT ![k] = "loop"]
        /\ UNCHANGED wg
     \/ /\ hbFailed' = [hbFailed EXCEPT ![k] = load.watchHeartbeat]
        /\ hbPc' = [hbPc EXCEPT ![k] = "done"]
        /\ wg' = wg - 1
        /\ UNCHANGED firstFrame
  /\ UNCHANGED <<lifeVars, cancel, conn, stream, inflight, recvErr,
                 recvErrBuf, chanVars, startVars, closeVars, runVars, csVars,
                 pubVars, connCancelled, connOpen, streamOpen, sendClosed,
                 registered, panicked, dialCancelled, ackVars, serverVars, listenVars, authVars, envVars>>

\* part_003:326-327: the Send returns, with the frame written or with an
\* error; the error is dropped and the lock is released.
sendHeartbeatDone(k) ==
  /\ Alive
  /\ hbPc[k] = "send"
  /\ writers' = EndWrite(hbStream[k], HbProc(k))
  /\ \/ /\ firstFrame' = NoteFrame(hbStream[k], "Heartbeat")
        /\ hbFailed' = [hbFailed EXCEPT ![k] = FALSE]
     \/ /\ hbFailed' = [hbFailed EXCEPT ![k] = load.watchHeartbeat]
        /\ UNCHANGED firstFrame
  /\ sendMu' = NoProc
  /\ hbStream' = [hbStream EXCEPT ![k] = 0]
  /\ hbPc' = [hbPc EXCEPT ![k] = "loop"]
  /\ UNCHANGED <<lifeVars, cancel, conn, stream, inflight, wg, recvErr,
                 recvErrBuf, chanVars, startVars, closeVars, runVars, csVars,
                 pubVars, connCancelled, connOpen, streamOpen, sendClosed,
                 registered, panicked, dialCancelled, ackVars, serverVars, listenVars, authVars, envVars>>

\* A heartbeat task that stops only once the client is closed.
heartbeatStopClosed(k) ==
  /\ Alive
  /\ hbPc[k] = "loop"
  /\ closed
  /\ hbPc' = [hbPc EXCEPT ![k] = "done"]
  /\ wg' = wg - 1
  /\ UNCHANGED <<lifeVars, connVars, sendMu, inflight, chanVars, startVars,
                 closeVars, runVars, hbStream, csVars, pubVars, writers,
                 panicked, hbFailed, ackVars, serverVars, listenVars, authVars, envVars>>

\* part_003:303,314-315: the connection context is done: the loop returns and
\* the deferred wg.Done runs.
heartbeatStop(k) ==
  /\ Alive
  /\ hbPc[k] = "loop"
  /\ CtxDone(k)
  /\ hbPc' = [hbPc EXCEPT ![k] = "done"]
  /\ wg' = wg - 1
  /\ UNCHANGED <<lifeVars, connVars, sendMu, inflight, chanVars, startVars,
                 closeVars, runVars, hbStream, csVars, pubVars, writers,
                 panicked, hbFailed, ackVars, serverVars, listenVars, authVars, envVars>>

heartbeatLoop(k) == sendHeartbeat(k) \/ sendHeartbeatDone(k) \/ heartbeatStop(k)

\* part_003:196: c.stream is read and Recv entered; a nil c.stream is a nil
\* dereference.
consumeRecv(k) ==
  /\ Alive
  /\ csPc[k] = "top"
  /\ IF stream = 0
       THEN /\ panicked' = "nil stream"
            /\ UNCHANGED <<csStream, csPc>>
       ELSE /\ csStream' = [csStream EXCEPT ![k] = stream]
            /\ csPc' = [csPc EXCEPT ![k] = "recv"]
            /\ UNCHANGED panicked
  /\ UNCHANGED <<lifeVars, connVars, sendMu, inflight, wg, chanVars,
                 startVars, closeVars, runVars, hbVars, csEnv, pubVars,
                 writers, ackVars, serverVars, listenVars, authVars, envVars>>

\* part_003:196-197: Recv returns an error.
consumeRecvError(k) ==
  /\ Alive
  /\ csPc[k] = "recv"
  /\ csPc' = [csPc EXCEPT ![k] = "err"]
  /\ UNCHANGED <<lifeVars, connVars, sendMu, inflight, wg, chanVars,
                 startVars, closeVars, runVars, hbVars, csStream, csEnv,
                 pubVars, writers, panicked, ackVars, serverVars, listenVars, authVars, envVars>>

\* part_003:196,203-215: Recv returns a frame: a Deliver or Broadcast frame
\* with an envelope is to be pushed, any other frame is skipped.
consumeFrame(k) ==
  /\ Alive
  /\ csPc[k] = "recv"
  /\ inbound < load.inbound
  /\ inbound' = inbound + 1
  /\ \/ /\ csEnv' = [csEnv EXCEPT ![k] = inbound + 1]
        /\ csPc' = [csPc EXCEPT ![k] = "pushDeliver"]
        /\ inKinds' = Append(inKinds, "Deliver")
     \/ /\ csEnv' = [csEnv EXCEPT ![k] = inbound + 1]
        /\ csPc' = [csPc EXCEPT ![k] = "pushBroadcast"]
        /\ inKinds' = Append(inKinds, "Broadcast")
     \/ /\ csPc' = [csPc EXCEPT ![k] = "top"]
        /\ inKinds' = Append(inKinds, "Other")
        /\ UNCHANGED csEnv
  /\ UNCHANGED <<lifeVars, connVars, sendMu, inflight, wg, deliverCh,
                 broadcastCh, deliverClosed, broadcastClosed, startVars,
                 closeVars, runVars, hbVars, csStream, pubVars, writers,
                 panicked, deliverOut, broadcastOut, ackVars, serverVars, listenVars, authVars, envVars>>

\* A push that drops the envelope when the channel is full.
consumePushDeliverDrop(k) ==
  /\ Alive
  /\ csPc[k] = "pushDeliver"
  /\ IF deliverClosed > 0
       THEN /\ panicked' = "send on closed channel"
            /\ UNCHANGED <<deliverCh, csPc, csEnv>>
       ELSE /\ deliverCh' = IF Len(deliverCh) < DeliverCap
                              THEN Append(deliverCh, csEnv[k]) ELSE deliverCh
            /\ csEnv' = [csEnv EXCEPT ![k] = 0]
            /\ csPc' = [csPc EXCEPT ![k] = "top"]
            /\ UNCHANGED panicked
  /\ UNCHANGED <<lifeVars, connVars, sendMu, inflight, wg, broadcastCh,
                 deliverClosed, broadcastClosed, deliverOut, broadcastOut,
                 startVars, closeVars, runVars, hbVars, csStream, pubVars,
                 writers, inbound, inKinds, ackVars, serverVars, listenVars, authVars, envVars>>

\* A push after which the loop pushes the same envelope again.
consumePushDeliverAgain(k) ==
  /\ Alive
  /\ csPc[k] = "pushDeliver"
  /\ deliverClosed > 0 \/ Len(deliverCh) < DeliverCap
  /\ IF deliverClosed > 0
       THEN /\ panicked' = "send on closed channel"
            /\ UNCHANGED <<deliverCh, csPc, csEnv>>
       ELSE /\ deliverCh' = Append(deliverCh, csEnv[k])
            /\ \/ /\ csEnv' = [csEnv EXCEPT ![k] = 0]
                  /\ csPc' = [csPc EXCEPT ![k] = "top"]
               \/ UNCHANGED <<csEnv, csPc>>
            /\ UNCHANGED panicked
  /\ UNCHANGED <<lifeVars, connVars, sendMu, inflight, wg, broadcastCh,
                 deliverClosed, broadcastClosed, startVars, closeVars,
                 runVars, hbVars, csStream, pubVars, writers, inbound,
                 deliverOut, broadcastOut, inKinds, ackVars, serverVars, listenVars, authVars, envVars>>

\* part_003:207: c.deliverCh <- envelope: blocks while the channel is full,
\* panics on a closed channel.
consumePushDeliver(k) ==
  /\ Alive
  /\ csPc[k] = "pushDeliver"
  /\ deliverClosed > 0 \/ Len(deliverCh) < DeliverCap
  /\ IF deliverClosed > 0
       THEN /\ panicked' = "send on closed channel"
            /\ UNCHANGED <<deliverCh, csPc, csEnv>>
       ELSE /\ deliverCh' = Append(deliverCh, csEnv[k])
            /\ csEnv' = [csEnv EXCEPT ![k] = 0]
            /\ csPc' = [csPc EXCEPT ![k] = "top"]
            /\ UNCHANGED panicked
  /\ UNCHANGED <<lifeVars, connVars, sendMu, inflight, wg, broadcastCh,
                 deliverClosed, broadcastClosed, startVars, closeVars,
                 runVars, hbVars, csStream, pubVars, writers, inbound,
                 deliverOut, broadcastOut, inKinds, ackVars, serverVars, listenVars, authVars, envVars>>

\* part_003:211: c.broadcastCh <- envelope.
consumePushBroadcast(k) ==
  /\ Alive
  /\ csPc[k] = "pushBroadcast"
  /\ broadcastClosed > 0 \/ Len(broadcastCh) < BroadcastCap
  /\ IF broadcastClosed > 0
       THEN /\ panicked' = "send on closed channel"
            /\ UNCHANGED <<broadcastCh, csPc, csEnv>>
       ELSE /\ broadcastCh' = Append(broadcastCh, csEnv[k])
            /\ csEnv' = [csEnv EXCEPT ![k] = 0]
            /\ csPc' = [csPc EXCEPT ![k] = "top"]
            /\ UNCHANGED panicked
  /\ UNCHANGED <<lifeVars, connVars, sendMu, inflight, wg, deliverCh,
                 deliverClosed, broadcastClosed, startVars, closeVars,
                 runVars, hbVars, csStream, pubVars, writers, inbound,
                 deliverOut, broadcastOut, inKinds, ackVars, serverVars, listenVars, authVars, envVars>>

\* A receive loop that reports the error and goes on reading.
consumeSignalContinue(k) ==
  /\ Alive
  /\ csPc[k] = "err"
  /\ IF recvErr = 0
       THEN UNCHANGED recvErrBuf
       ELSE /\ recvErrBuf[recvErr] = 0
            /\ recvErrBuf' = [recvErrBuf EXCEPT ![recvErr] = 1]
  /\ csStream' = [csStream EXCEPT ![k] = 0]
  /\ csPc' = [csPc EXCEPT ![k] = "top"]
  /\ UNCHANGED <<lifeVars, cancel, conn, stream, sendMu, inflight, wg,
                 recvErr, chanVars, startVars, closeVars, runVars, hbVars,
                 csEnv, pubVars, connCancelled, connOpen, streamOpen,
                 sendClosed, registered, writers, firstFrame, panicked,
                 dialCancelled, ackVars, serverVars, listenVars, authVars, envVars>>

\* part_003:198-201: the error is sent on the channel c.recvErr names now
\* (blocking while that channel is full), and consume returns.
consumeSignal(k) ==
  /\ Alive
  /\ csPc[k] = "err"
  /\ IF recvErr = 0
       THEN UNCHANGED recvErrBuf
       ELSE /\ recvErrBuf[recvErr] = 0
            /\ recvErrBuf' = [recvErrBuf EXCEPT ![recvErr] = 1]
  /\ csStream' = [csStream EXCEPT ![k] = 0]
  /\ csPc' = [csPc EXCEPT ![k] = "done"]
  /\ UNCHANGED <<lifeVars, cancel, conn, stream, sendMu, inflight, wg,
                 recvErr, chanVars, startVars, closeVars, runVars, hbVars,
                 csEnv, pubVars, connCancelled, connOpen, streamOpen,
                 sendClosed, registered, writers, firstFrame, panicked,
                 dialCancelled, ackVars, serverVars, listenVars, authVars, envVars>>

consume(k) ==
  \/ consumeRecv(k)
  \/ consumeRecvError(k)
  \/ consumeFrame(k)
  \/ consumePushDeliver(k)
  \/ consumePushBroadcast(k)
  \/ consumeSignal(k)

\* A PublishIngress without the started check.
PublishCallUnchecked(p) ==
  /\ Alive
  /\ p <= load.publishers
  /\ pubPc[p] \in {"idle", "done"}
  /\ pubWrote' = [pubWrote EXCEPT ![p] = FALSE]
  /\ pubSends' = [pubSends EXCEPT ![p] = 0]
  /\ pubRet' = [pubRet EXCEPT ![p] = "none"]
  /\ pubPc' = [pubPc EXCEPT ![p] = "acquire"]
  /\ UNCHANGED <<lifeVars, connVars, sendMu, inflight, wg, chanVars,
                 startVars, closeVars, runVars, hbVars, csVars, pubCtxDone,
                 pubStream, pubSlot, writers, panicked, ackVars, serverVars, listenVars, authVars, envVars>>

\* part_003:219-222: a call: ErrNotStarted unless started is set.
PublishCall(p) ==
  /\ Alive
  /\ p <= load.publishers
  /\ pubPc[p] \in {"idle", "done"}
  /\ pubWrote' = [pubWrote EXCEPT ![p] = FALSE]
  /\ pubSends' = [pubSends EXCEPT ![p] = 0]
  /\ IF started
       THEN /\ pubRet' = [pubRet EXCEPT ![p] = "none"]
            /\ pubPc' = [pubPc EXCEPT ![p] = "acquire"]
       ELSE /\ pubRet' = [pubRet EXCEPT ![p] = "ErrNotStarted"]
            /\ pubPc' = [pubPc EXCEPT ![p] = "done"]
  /\ UNCHANGED <<lifeVars, connVars, sendMu, inflight, wg, chanVars,
                 startVars, closeVars, runVars, hbVars, csVars, pubCtxDone,
                 pubStream, pubSlot, writers, panicked, ackVars, serverVars, listenVars, authVars, envVars>>

\* An acquire that never waits for a free slot.
acquireSlotUnbounded(p) ==
  /\ Alive
  /\ pubPc[p] = "acquire"
  /\ pubSlot' = [pubSlot EXCEPT ![p] = backpressure]
  /\ inflight' = IF backpressure /\ inflight < MaxInFlightDeliver
                   THEN inflight + 1 ELSE inflight
  /\ pubPc' = [pubPc EXCEPT ![p] = "lock"]
  /\ UNCHANGED <<lifeVars, connVars, sendMu, wg, chanVars, startVars,
                 closeVars, runVars, hbVars, csVars, pubRet, pubCtxDone,
                 pubStream, pubWrote, writers, panicked, pubSends, ackVars, serverVars, listenVars, authVars, envVars>>

\* part_003:223,330-336: acquireSlot: no pool, or a token is put into the
\* c.inflight channel (which blocks while the channel is full).
acquireSlot(p) ==
  /\ Alive
  /\ pubPc[p] = "acquire"
  /\ IF backpressure
       THEN /\ inflight < MaxInFlightDeliver
            /\ inflight' = inflight + 1
            /\ pubSlot' = [pubSlot EXCEPT ![p] = TRUE]
       ELSE UNCHANGED <<inflight, pubSlot>>
  /\ pubPc' = [pubPc EXCEPT ![p] = "lock"]
  /\ UNCHANGED <<lifeVars, connVars, sendMu, wg, chanVars, startVars,
                 closeVars, runVars, hbVars, csVars, pubRet, pubCtxDone,
                 pubStream, pubWrote, writers, panicked, pubSends, ackVars, serverVars, listenVars, authVars, envVars>>

\* An acquireSlot that does not watch the caller's context.
acquireSlotDeaf(p) ==
  /\ Alive
  /\ pubPc[p] = "acquire"
  /\ backpressure
  /\ pubCtxDone[p]
  /\ FALSE
  /\ UNCHANGED vars

\* part_003:223-225,337-338: the caller's context is done while acquireSlot
\* waits: PublishIngress returns the context's error.
acquireSlotCancelled(p) ==
  /\ Alive
  /\ pubPc[p] = "acquire"
  /\ backpressure
  /\ pubCtxDone[p]
  /\ pubRet' = [pubRet EXCEPT ![p] = "ctxErr"]
  /\ pubPc' = [pubPc EXCEPT ![p] = "done"]
  /\ UNCHANGED <<lifeVars, connVars, sendMu, inflight, wg, chanVars,
                 startVars, closeVars, runVars, hbVars, csVars, pubCtxDone,
                 pubStream, pubSlot, pubWrote, writers, panicked, pubSends, ackVars,
                 serverVars, listenVars, authVars, envVars>>

\* part_003:233-234: sendMu.Lock(), then c.stream.Send is entered; a nil
\* c.stream is a nil dereference.
PublishSend(p) ==
  /\ Alive
  /\ pubPc[p] = "lock"
  /\ sendMu = NoProc
  /\ sendMu' = PubProc(p)
  /\ IF stream = 0
       THEN /\ panicked' = "nil stream"
            /\ UNCHANGED <<pubStream, writers, pubSends, pubPc>>
       ELSE /\ pubStream' = [pubStream EXCEPT ![p] = stream]
            /\ writers' = BeginWrite(stream, PubProc(p))
            /\ pubSends' = [pubSends EXCEPT ![p] = @ + 1]
            /\ pubPc' = [pubPc EXCEPT ![p] = "send"]
            /\ UNCHANGED panicked
  /\ UNCHANGED <<lifeVars, connVars, inflight, wg, chanVars, startVars,
                 closeVars, runVars, hbVars, csVars, pubRet, pubCtxDone,
                 pubSlot, pubWrote, ackVars, serverVars, listenVars, authVars, envVars>>

\* A publish that writes the frame again after a failed write.
PublishSentRetry(p) ==
  /\ Alive
  /\ pubPc[p] = "send"
  /\ writers' = EndWrite(pubStream[p], PubProc(p))
  /\ sendMu' = NoProc
  /\ pubStream' = [pubStream EXCEPT ![p] = 0]
  /\ \/ /\ pubRet' = [pubRet EXCEPT ![p] = "nil"]
        /\ pubWrote' = [pubWrote EXCEPT ![p] = TRUE]
        /\ firstFrame' = NoteFrame(pubStream[p], "Ingress")
        /\ pubPc' = [pubPc EXCEPT ![p] = "release"]
     \/ /\ pubPc' = [pubPc EXCEPT ![p] = IF pubSends[p] < 2 THEN "lock" ELSE "release"]
        /\ pubRet' = [pubRet EXCEPT ![p] = IF pubSends[p] < 2 THEN "none" ELSE "sendErr"]
        /\ UNCHANGED <<pubWrote, firstFrame>>
  /\ UNCHANGED <<lifeVars, cancel, conn, stream, inflight, wg, recvErr,
                 recvErrBuf, chanVars, startVars, closeVars, runVars, hbVars,
                 csVars, pubCtxDone, pubSlot, connCancelled, connOpen,
                 streamOpen, sendClosed, registered, panicked, pubSends, dialCancelled, ackVars,
                 serverVars, listenVars, authVars, envVars>>

\* part_003:234-235: the Send returns, with or without an error, and the lock
\* is released.
PublishSent(p) ==
  /\ Alive
  /\ pubPc[p] = "send"
  /\ writers' = EndWrite(pubStream[p], PubProc(p))
  /\ sendMu' = NoProc
  /\ pubStream' = [pubStream EXCEPT ![p] = 0]
  /\ \/ /\ pubRet' = [pubRet EXCEPT ![p] = "nil"]
        /\ pubWrote' = [pubWrote EXCEPT ![p] = TRUE]
        /\ firstFrame' = NoteFrame(pubStream[p], "Ingress")
     \/ /\ pubRet' = [pubRet EXCEPT ![p] = "sendErr"]
        /\ UNCHANGED <<pubWrote, firstFrame>>
  /\ pubPc' = [pubPc EXCEPT ![p] = "release"]
  /\ UNCHANGED <<lifeVars, cancel, conn, stream, inflight, wg, recvErr,
                 recvErrBuf, chanVars, startVars, closeVars, runVars, hbVars,
                 csVars, pubCtxDone, pubSlot, connCancelled, connOpen,
                 streamOpen, sendClosed, registered, panicked, pubSends, dialCancelled, ackVars,
                 serverVars, listenVars, authVars, envVars>>

\* A publish that gives its slot back only after a successful write.
releaseSlotOnSuccess(p) ==
  /\ Alive
  /\ pubPc[p] = "release"
  /\ inflight' = IF backpressure /\ inflight > 0 /\ pubRet[p] = "nil"
                   THEN inflight - 1 ELSE inflight
  /\ pubSlot' = [pubSlot EXCEPT ![p] = FALSE]
  /\ pubPc' = [pubPc EXCEPT ![p] = "done"]
  /\ UNCHANGED <<lifeVars, connVars, sendMu, wg, chanVars, startVars,
                 closeVars, runVars, hbVars, csVars, pubRet, pubCtxDone,
                 pubStream, pubWrote, pubSends, writers, panicked, ackVars,
                 serverVars, listenVars, authVars, envVars>>

\* part_003:226,236-239,342-350: the deferred releaseSlot takes a token out of
\* the pool if there is one, and PublishIngress returns the send's result.
releaseSlot(p) ==
  /\ Alive
  /\ pubPc[p] = "release"
  /\ inflight' = IF backpressure /\ inflight > 0 THEN inflight - 1 ELSE inflight
  /\ pubSlot' = [pubSlot EXCEPT ![p] = FALSE]
  /\ pubPc' = [pubPc EXCEPT ![p] = "done"]
  /\ UNCHANGED <<lifeVars, connVars, sendMu, wg, chanVars, startVars,
                 closeVars, runVars, hbVars, csVars, pubRet, pubCtxDone,
                 pubStream, pubWrote, writers, panicked, pubSends, ackVars, serverVars, listenVars, authVars, envVars>>

\* The steps of a PublishIngress call that has got past the started check.
PublishProgress(p) ==
  \/ acquireSlot(p)
  \/ acquireSlotCancelled(p)
  \/ PublishSend(p)
  \/ PublishSent(p)
  \/ releaseSlot(p)

PublishIngress(p) ==
  \/ PublishCall(p)
  \/ acquireSlot(p)
  \/ acquireSlotCancelled(p)
  \/ PublishSend(p)
  \/ PublishSent(p)
  \/ releaseSlot(p)

\* part_003:242-244: a subscriber takes the next envelope off the deliver
\* channel.
DeliverReceive ==
  /\ Alive
  /\ deliverCh # <<>>
  /\ deliverCh' = Tail(deliverCh)
  /\ deliverOut' = Append(deliverOut, Head(deliverCh))
  /\ UNCHANGED <<lifeVars, connVars, sendMu, inflight, wg, broadcastCh,
                 deliverClosed, broadcastClosed, startVars, closeVars,
                 runVars, hbVars, csVars, pubVars, writers, inbound, panicked,
                 broadcastOut, inKinds, ackVars, serverVars, listenVars, authVars, envVars>>

\* part_003:246-248: a subscriber takes the next envelope off the broadcast
\* channel.
BroadcastReceive ==
  /\ Alive
  /\ broadcastCh # <<>>
  /\ broadcastCh' = Tail(broadcastCh)
  /\ broadcastOut' = Append(broadcastOut, Head(broadcastCh))
  /\ UNCHANGED <<lifeVars, connVars, sendMu, inflight, wg, deliverCh,
                 deliverClosed, broadcastClosed, startVars, closeVars,
                 runVars, hbVars, csVars, pubVars, writers, inbound, panicked,
                 deliverOut, inKinds, ackVars, serverVars, listenVars, authVars, envVars>>

\* The owner of the context passed to Start cancels it.
CancelTop ==
  /\ Alive
  /\ load.cancelTop
  /\ ~topDone
  /\ topDone' = TRUE
  /\ UNCHANGED <<load, backpressure, startOnce, stopOnce, runCancel,
                 runCancelled, connVars, started, closed, sendMu, inflight,
                 wg, chanVars, startVars, closeVars, runVars, hbVars, csVars,
                 pubVars, writers, panicked, ackVars, serverVars, listenVars, authVars, envVars>>

\* The caller of PublishIngress cancels the context of its calls.
CancelPublish(p) ==
  /\ Alive
  /\ p <= load.publishers
  /\ load.pubCancel
  /\ ~pubCtxDone[p]
  /\ pubCtxDone' = [pubCtxDone EXCEPT ![p] = TRUE]
  /\ UNCHANGED <<lifeVars, connVars, sendMu, inflight, wg, chanVars,
                 startVars, closeVars, runVars, hbVars, csVars, pubPc, pubRet,
                 pubStream, pubSlot, pubWrote, writers, panicked, pubSends, ackVars,
                 serverVars, listenVars, authVars, envVars>>

\* A Close without the one-shot guard: every call runs the teardown.
CloseOnceEveryCall(c) ==
  /\ Alive
  /\ c <= load.closers
  /\ closePc[c] = "idle"
  /\ stopOnce # "running"
  /\ stopOnce' = "running"
  /\ closeRuns' = closeRuns + 1
  /\ closePc' = [closePc EXCEPT ![c] = "runCancel"]
  /\ UNCHANGED <<load, backpressure, topDone, startOnce, runCancel,
                 runCancelled, connVars, started, closed, sendMu, inflight,
                 wg, chanVars, startVars, closeTmp, runVars, hbVars, csVars,
                 pubVars, writers, panicked, drainCtxDone, drainRet, drainWaited, ackVars, serverVars, listenVars, authVars, envVars>>

\* part_003:267: stopOnce.Do, first caller: the teardown body is entered.
CloseOnce(c) ==
  /\ Alive
  /\ c <= load.closers
  /\ closePc[c] = "idle"
  /\ stopOnce = "idle"
  /\ stopOnce' = "running"
  /\ closeRuns' = closeRuns + 1
  /\ closePc' = [closePc EXCEPT ![c] = "runCancel"]
  /\ UNCHANGED <<load, backpressure, topDone, startOnce, runCancel,
                 runCancelled, connVars, started, closed, sendMu, inflight,
                 wg, chanVars, startVars, closeTmp, runVars, hbVars, csVars,
                 pubVars, writers, panicked, drainCtxDone, drainRet, drainWaited, ackVars, serverVars, listenVars, authVars, envVars>>

\* part_003:268-270: the run context is cancelled if Start has stored its
\* cancel function.
CloseRunCancel(c) ==
  /\ Alive
  /\ closePc[c] = "runCancel"
  /\ runCancelled' = (runCancelled \/ runCancel)
  /\ closePc' = [closePc EXCEPT ![c] = "cancel"]
  /\ UNCHANGED <<load, backpressure, topDone, startOnce, stopOnce, runCancel,
                 connVars, started, closed, sendMu, inflight, wg, chanVars,
                 startVars, closeTmp, closeRuns, runVars, hbVars, csVars,
                 pubVars, writers, panicked, drainCtxDone, drainRet, drainWaited, ackVars, serverVars, listenVars, authVars, envVars>>

\* part_003:271: if c.cancel != nil.  The field is written by the supervisor
\* without synchronization, so the value tested here and the value called
\* next may differ.
CloseCancelCheck(c) ==
  /\ Alive
  /\ closePc[c] = "cancel"
  /\ closeTmp' = cancel
  /\ closePc' = [closePc EXCEPT ![c] = IF cancel = 0 THEN "stream" ELSE "cancelCall"]
  /\ UNCHANGED <<lifeVars, connVars, sendMu, inflight, wg, chanVars,
                 startVars, closeRuns, runVars, hbVars, csVars, pubVars,
                 writers, panicked, drainCtxDone, drainRet, drainWaited, ackVars, serverVars, listenVars, authVars, envVars>>

\* part_003:272: c.cancel(): the function tested, or the field's value now;
\* calling a nil function panics.
CloseCancelCall(c) ==
  /\ Alive
  /\ closePc[c] = "cancelCall"
  /\ \E f \in {closeTmp, cancel} :
       IF f = 0
         THEN /\ panicked' = "nil function call"
              /\ UNCHANGED <<connCancelled, closePc>>
         ELSE /\ connCancelled' = connCancelled \cup {f}
              /\ closePc' = [closePc EXCEPT ![c] = "stream"]
              /\ UNCHANGED panicked
  /\ UNCHANGED <<lifeVars, cancel, conn, stream, sendMu, inflight, wg,
                 recvErr, recvErrBuf, chanVars, startVars, closeTmp,
                 closeRuns, runVars, hbVars, csVars, pubVars, connOpen,
                 streamOpen, sendClosed, registered, writers, firstFrame,
                 drainCtxDone, drainRet, drainWaited, dialCancelled, ackVars, serverVars, listenVars, authVars, envVars>>

\* part_003:274: if c.stream != nil (the same unsynchronized read).
CloseStreamCheck(c) ==
  /\ Alive
  /\ closePc[c] = "stream"
  /\ closeTmp' = stream
  /\ closePc' = [closePc EXCEPT ![c] = IF stream = 0 THEN "conn" ELSE "streamCall"]
  /\ UNCHANGED <<lifeVars, connVars, sendMu, inflight, wg, chanVars,
                 startVars, closeRuns, runVars, hbVars, csVars, pubVars,
                 writers, panicked, drainCtxDone, drainRet, drainWaited, ackVars, serverVars, listenVars, authVars, envVars>>

\* part_003:275: err = c.stream.CloseSend().
CloseStreamCall(c) ==
  /\ Alive
  /\ closePc[c] = "streamCall"
  /\ \E s \in {closeTmp, stream} :
       IF s = 0
         THEN /\ panicked' = "nil stream"
              /\ UNCHANGED <<sendClosed, closePc>>
         ELSE /\ sendClosed' = sendClosed \cup {s}
              /\ closePc' = [closePc EXCEPT ![c] = "conn"]
              /\ UNCHANGED panicked
  /\ UNCHANGED <<lifeVars, cancel, conn, stream, sendMu, inflight, wg,
                 recvErr, recvErrBuf, chanVars, startVars, closeTmp,
                 closeRuns, runVars, hbVars, csVars, pubVars, connCancelled,
                 connOpen, streamOpen, registered, writers, firstFrame,
                 drainCtxDone, drainRet, drainWaited, dialCancelled, ackVars, serverVars, listenVars, authVars, envVars>>

\* part_003:277: if c.conn != nil (the same unsynchronized read).
CloseConnCheck(c) ==
  /\ Alive
  /\ closePc[c] = "conn"
  /\ closeTmp' = conn
  /\ closePc' = [closePc EXCEPT ![c] = IF conn = 0 THEN "deliver" ELSE "connCall"]
  /\ UNCHANGED <<lifeVars, connVars, sendMu, inflight, wg, chanVars,
                 startVars, closeRuns, runVars, hbVars, csVars, pubVars,
                 writers, panicked, drainCtxDone, drainRet, drainWaited, ackVars, serverVars, listenVars, authVars, envVars>>

\* part_003:278: _ = c.conn.Close().
CloseConnCall(c) ==
  /\ Alive
  /\ closePc[c] = "connCall"
  /\ \E k \in {closeTmp, conn} :
       IF k = 0
         THEN /\ panicked' = "nil conn"
              /\ UNCHANGED <<connOpen, closePc>>
         ELSE /\ connOpen' = connOpen \ {k}
              /\ closePc' = [closePc EXCEPT ![c] = "deliver"]
              /\ UNCHANGED panicked
  /\ UNCHANGED <<lifeVars, cancel, conn, stream, sendMu, inflight, wg,
                 recvErr, recvErrBuf, chanVars, startVars, closeTmp,
                 closeRuns, runVars, hbVars, csVars, pubVars, connCancelled,
                 streamOpen, sendClosed, registered, writers, firstFrame,
                 drainCtxDone, drainRet, drainWaited, dialCancelled, ackVars, serverVars, listenVars, authVars, envVars>>

\* part_003:280: close(c.deliverCh); closing a closed channel panics.
CloseDeliver(c) ==
  /\ Alive
  /\ closePc[c] = "deliver"
  /\ deliverClosed' = deliverClosed + 1
  /\ closeTmp' = 0
  /\ IF deliverClosed > 0
       THEN /\ panicked' = "close of closed channel"
            /\ UNCHANGED closePc
       ELSE /\ closePc' = [closePc EXCEPT ![c] = "broadcast"]
            /\ UNCHANGED panicked
  /\ UNCHANGED <<lifeVars, connVars, sendMu, inflight, wg, deliverCh,
                 broadcastCh, broadcastClosed, startVars, closeRuns, runVars,
                 hbVars, csVars, pubVars, writers, inbound, deliverOut, broadcastOut, drainCtxDone, drainRet, drainWaited, inKinds, ackVars,
                 serverVars, listenVars, authVars, envVars>>

\* part_003:281: close(c.broadcastCh).
CloseBroadcast(c) ==
  /\ Alive
  /\ closePc[c] = "broadcast"
  /\ broadcastClosed' = broadcastClosed + 1
  /\ IF broadcastClosed > 0
       THEN /\ panicked' = "close of closed channel"
            /\ UNCHANGED closePc
       ELSE /\ closePc' = [closePc EXCEPT ![c] = "store"]
            /\ UNCHANGED panicked
  /\ UNCHANGED <<lifeVars, connVars, sendMu, inflight, wg, deliverCh,
                 broadcastCh, deliverClosed, startVars, closeTmp, closeRuns,
                 runVars, hbVars, csVars, pubVars, writers, inbound, deliverOut, broadcastOut, drainCtxDone, drainRet, drainWaited, inKinds, ackVars,
                 serverVars, listenVars, authVars, envVars>>

\* part_003:282-284: closed is set, the Once completes and Close returns.
CloseStore(c) ==
  /\ Alive
  /\ closePc[c] = "store"
  /\ closed' = TRUE
  /\ stopOnce' = "done"
  /\ closePc' = [closePc EXCEPT ![c] = "done"]
  /\ UNCHANGED <<load, backpressure, topDone, startOnce, runCancel,
                 runCancelled, connVars, started, sendMu, inflight, wg,
                 chanVars, startVars, closeTmp, closeRuns, runVars, hbVars,
                 csVars, pubVars, writers, panicked, drainCtxDone, drainRet, drainWaited, ackVars, serverVars, listenVars, authVars, envVars>>

\* part_003:267,284: stopOnce.Do for a later caller (it waits while the first
\* caller is inside the body), then return.
CloseSkip(c) ==
  /\ Alive
  /\ c <= load.closers
  /\ closePc[c] = "idle"
  /\ stopOnce = "done"
  /\ closePc' = [closePc EXCEPT ![c] = "done"]
  /\ UNCHANGED <<lifeVars, connVars, sendMu, inflight, wg, chanVars,
                 startVars, closeTmp, closeRuns, runVars, hbVars, csVars,
                 pubVars, writers, panicked, drainCtxDone, drainRet, drainWaited, ackVars, serverVars, listenVars, authVars, envVars>>

Close(c) ==
  \/ CloseOnce(c)
  \/ CloseRunCancel(c)
  \/ CloseCancelCheck(c)
  \/ CloseCancelCall(c)
  \/ CloseStreamCheck(c)
  \/ CloseStreamCall(c)
  \/ CloseConnCheck(c)
  \/ CloseConnCall(c)
  \/ CloseDeliver(c)
  \/ CloseBroadcast(c)
  \/ CloseStore(c)
  \/ CloseSkip(c)

\* part_003:252-256: the task Drain starts: c.wg.Wait() returns once the
\* counter is zero, and done is closed.
DrainWait(c) ==
  /\ Alive
  /\ load.drain
  /\ closePc[c] = "done"
  /\ ~drainWaited[c]
  /\ wg = 0
  /\ drainWaited' = [drainWaited EXCEPT ![c] = TRUE]
  /\ UNCHANGED <<lifeVars, connVars, sendMu, inflight, wg, chanVars,
                 startVars, closePc, closeTmp, closeRuns, drainCtxDone,
                 drainRet, runVars, hbVars, csVars, pubVars, writers,
                 panicked, ackVars, serverVars, listenVars, authVars, envVars>>

\* part_003:257-262: the select of Drain: nil once done is closed, the
\* context's error once the context is done; either when both are ready.
DrainReturn(c) ==
  /\ Alive
  /\ load.drain
  /\ closePc[c] = "done"
  /\ drainRet[c] = "none"
  /\ \/ /\ drainWaited[c]
        /\ drainRet' = [drainRet EXCEPT ![c] = "nil"]
     \/ /\ drainCtxDone
        /\ drainRet' = [drainRet EXCEPT ![c] = "ctxErr"]
  /\ UNCHANGED <<lifeVars, connVars, sendMu, inflight, wg, chanVars,
                 startVars, closePc, closeTmp, closeRuns, drainCtxDone,
                 drainWaited, runVars, hbVars, csVars, pubVars, writers,
                 panicked, ackVars, serverVars, listenVars, authVars, envVars>>

\* part_003:250-263: Drain: the Close call (the steps of Close above), then
\* the wait.
Drain(c) == DrainWait(c) \/ DrainReturn(c)

\* The context passed to Drain expires.
DrainExpire ==
  /\ Alive
  /\ load.drain
  /\ ~drainCtxDone
  /\ drainCtxDone' = TRUE
  /\ UNCHANGED <<lifeVars, connVars, sendMu, inflight, wg, chanVars,
                 startVars, closePc, closeTmp, closeRuns, drainRet,
                 drainWaited, runVars, hbVars, csVars, pubVars, writers,
                 panicked, ackVars, serverVars, listenVars, authVars, envVars>>

Next ==
  \/ \E s \in Starters : Start(s)
  \/ run
  \/ \E k \in Conns : heartbeatLoop(k) \/ consume(k)
  \/ \E p \in Publishers : PublishIngress(p) \/ CancelPublish(p)
  \/ \E c \in Closers : Close(c) \/ Drain(c)
  \/ DrainExpire
  \/ DeliverReceive
  \/ BroadcastReceive
  \/ CancelTop

(***************************************************************************)
(* The Server, delivery.go:58-114, and the streams it serves.              *)
(***************************************************************************)
\* The applications the server is checked with: clients opening streams on a
\* server whose context may be cancelled, and Close callers racing a Serve
\* call.
ServeLoads ==
  { [streams |-> NumServeStreams, closers |-> 0],
    [streams |-> 1, closers |-> NumServeClosers] }

NoServeLoad == [streams |-> 0, closers |-> 0]

\* delivery.go:58-64: the server NewServer returns: no listener, no gRPC
\* server, nothing called yet.
ListenStart(l) ==
  /\ serveLoad = l
  /\ lis = FALSE
  /\ grpcServer = FALSE
  /\ srvStopOnce = "idle"
  /\ lisState = "none"
  /\ grpcState = "none"
  /\ servePc = "idle"
  /\ serveRet = "none"
  /\ serveCtxDone = FALSE
  /\ scPc = [c \in ServeClosers |-> "idle"]
  /\ stPc = [s \in ServeStreams |-> "none"]
  /\ stRet = [s \in ServeStreams |-> "none"]
  /\ stFrames = [s \in ServeStreams |-> 0]

\* delivery.go:73-76: Serve is called; a nil handler is refused.
ServeCall ==
  /\ servePc = "idle"
  /\ \/ /\ servePc' = "done"
        /\ serveRet' = "handler is required"
     \/ /\ servePc' = "listen"
        /\ UNCHANGED serveRet
  /\ UNCHANGED <<serveLoad, handleVars, serveCtxDone, scPc, bridgeVars,
                 ackVars, serverVars, clientVars, authVars, envVars>>

\* delivery.go:77-80: net.Listen binds the address or fails.
ServeListen ==
  /\ servePc = "listen"
  /\ \/ /\ servePc' = "done"
        /\ serveRet' = "listen error"
        /\ UNCHANGED lisState
     \/ /\ lisState' = "open"
        /\ servePc' = "storeLis"
        /\ UNCHANGED serveRet
  /\ UNCHANGED <<serveLoad, lis, grpcServer, srvStopOnce, grpcState,
                 serveCtxDone, scPc, bridgeVars, ackVars, serverVars,
                 clientVars, authVars, envVars>>

\* delivery.go:81: s.lis = lis.
ServeStoreLis ==
  /\ servePc = "storeLis"
  /\ lis' = TRUE
  /\ servePc' = "tls"
  /\ UNCHANGED <<serveLoad, grpcServer, srvStopOnce, lisState, grpcState,
                 serveRet, serveCtxDone, scPc, bridgeVars, ackVars,
                 serverVars, clientVars, authVars, envVars>>

\* delivery.go:82-93: the transport credentials; loading the key pair may
\* fail, and Serve then returns with the listener left as it is.
ServeTLS ==
  /\ servePc = "tls"
  /\ \/ /\ servePc' = "done"
        /\ serveRet' = "load error"
     \/ /\ servePc' = "new"
        /\ UNCHANGED serveRet
  /\ UNCHANGED <<serveLoad, handleVars, serveCtxDone, scPc, bridgeVars,
                 ackVars, serverVars, clientVars, authVars, envVars>>

\* delivery.go:94-95: grpc.NewServer and the registration of the service.
ServeNew ==
  /\ servePc = "new"
  /\ grpcState' = "new"
  /\ servePc' = "storeSrv"
  /\ UNCHANGED <<serveLoad, lis, grpcServer, srvStopOnce, lisState, serveRet,
                 serveCtxDone, scPc, bridgeVars, ackVars, serverVars,
                 clientVars, authVars, envVars>>

\* delivery.go:96: s.grpcServer = srv.
ServeStoreSrv ==
  /\ servePc = "storeSrv"
  /\ grpcServer' = TRUE
  /\ servePc' = "spawn"
  /\ UNCHANGED <<serveLoad, lis, srvStopOnce, lisState, grpcState, serveRet,
                 serveCtxDone, scPc, bridgeVars, ackVars, serverVars,
                 clientVars, authVars, envVars>>

\* delivery.go:97-100: the task that waits for ctx.Done() is started.
ServeSpawn ==
  /\ servePc = "spawn"
  /\ scPc' = [scPc EXCEPT ![0] = "wait"]
  /\ servePc' = "serve"
  /\ UNCHANGED <<serveLoad, handleVars, serveRet, serveCtxDone, bridgeVars,
                 ackVars, serverVars, clientVars, authVars, envVars>>

\* delivery.go:101: srv.Serve(lis) is entered: on a gRPC server stopped
\* already it closes the listener and returns an error, on a closed listener
\* its accept fails, otherwise it accepts connections.
ServeEnter ==
  /\ servePc = "serve"
  /\ IF grpcState \in {"stopping", "stopped"}
       THEN /\ lisState' = "closed"
            /\ servePc' = "done"
            /\ serveRet' = "server stopped"
            /\ UNCHANGED grpcState
       ELSE IF lisState = "closed"
              THEN /\ servePc' = "done"
                   /\ serveRet' = "accept error"
                   /\ UNCHANGED <<lisState, grpcState>>
              ELSE /\ grpcState' = "serving"
                   /\ servePc' = "serving"
                   /\ UNCHANGED <<lisState, serveRet>>
  /\ UNCHANGED <<serveLoad, lis, grpcServer, srvStopOnce, serveCtxDone, scPc,
                 bridgeVars, ackVars, serverVars, clientVars, authVars, envVars>>

\* delivery.go:101: srv.Serve returns nil once GracefulStop was called.
ServeReturn ==
  /\ servePc = "serving"
  /\ grpcState \in {"stopping", "stopped"}
  /\ servePc' = "done"
  /\ serveRet' = "nil"
  /\ UNCHANGED <<serveLoad, handleVars, serveCtxDone, scPc, bridgeVars,
                 ackVars, serverVars, clientVars, authVars, envVars>>

\* delivery.go:101: srv.Serve returns the accept error of a listener closed
\* under it.
ServeAcceptError ==
  /\ servePc = "serving"
  /\ grpcState = "serving"
  /\ lisState = "closed"
  /\ servePc' = "done"
  /\ serveRet' = "accept error"
  /\ UNCHANGED <<serveLoad, handleVars, serveCtxDone, scPc, bridgeVars,
                 ackVars, serverVars, clientVars, authVars, envVars>>

Serve ==
  \/ ServeCall
  \/ ServeListen
  \/ ServeStoreLis
  \/ ServeTLS
  \/ ServeNew
  \/ ServeStoreSrv
  \/ ServeSpawn
  \/ ServeEnter
  \/ ServeReturn
  \/ ServeAcceptError

\* The context passed to Serve is cancelled.
ServeCancel ==
  /\ ~serveCtxDone
  /\ serveCtxDone' = TRUE
  /\ UNCHANGED <<serveLoad, handleVars, servePc, serveRet, scPc, bridgeVars,
                 ackVars, serverVars, clientVars, authVars, envVars>>

\* delivery.go:104-105: Close is called, by an application task at any time,
\* by the task of Serve (delivery.go:98-99) once ctx is done.
serverCloseCall(c) ==
  /\ IF c = 0
       THEN scPc[c] = "wait" /\ serveCtxDone
       ELSE scPc[c] = "idle" /\ c <= serveLoad.closers
  /\ scPc' = [scPc EXCEPT ![c] = "once"]
  /\ UNCHANGED <<serveLoad, handleVars, serveCallVars, bridgeVars, ackVars,
                 serverVars, clientVars, authVars, envVars>>

\* delivery.go:105: stopOnce.Do: the first caller runs the body.
serverCloseOnce(c) ==
  /\ scPc[c] = "once"
  /\ srvStopOnce = "idle"
  /\ srvStopOnce' = "running"
  /\ scPc' = [scPc EXCEPT ![c] = "checkSrv"]
  /\ UNCHANGED <<serveLoad, lis, grpcServer, lisState, grpcState,
                 serveCallVars, bridgeVars, ackVars, serverVars, clientVars, authVars, envVars>>

\* delivery.go:105,113: stopOnce.Do on a spent one-shot: Close returns nil
\* (a caller arriving while the body runs waits for it).
serverCloseSkip(c) ==
  /\ scPc[c] = "once"
  /\ srvStopOnce = "done"
  /\ scPc' = [scPc EXCEPT ![c] = "done"]
  /\ UNCHANGED <<serveLoad, handleVars, serveCallVars, bridgeVars, ackVars,
                 serverVars, clientVars, authVars, envVars>>

\* delivery.go:106-108: s.grpcServer is read; when set, GracefulStop is
\* called: a server that never served is marked stopped, a serving one
\* closes its listener and rejects new streams.
serverCloseCheckSrv(c) ==
  /\ scPc[c] = "checkSrv"
  /\ IF grpcServer
       THEN /\ scPc' = [scPc EXCEPT ![c] = "gracefulStop"]
            /\ grpcState' = IF grpcState = "serving" THEN "stopping"
                            ELSE "stopped"
            /\ lisState' = IF grpcState = "serving" THEN "closed"
                           ELSE lisState
       ELSE /\ scPc' = [scPc EXCEPT ![c] = "checkLis"]
            /\ UNCHANGED <<grpcState, lisState>>
  /\ UNCHANGED <<serveLoad, lis, grpcServer, srvStopOnce, serveCallVars,
                 bridgeVars, ackVars, serverVars, clientVars, authVars, envVars>>

\* delivery.go:107: GracefulStop returns when the streams in flight have
\* ended.
serverCloseStopped(c) ==
  /\ scPc[c] = "gracefulStop"
  /\ \A s \in ServeStreams : stPc[s] \in {"none", "done"}
  /\ grpcState' = "stopped"
  /\ scPc' = [scPc EXCEPT ![c] = "checkLis"]
  /\ UNCHANGED <<serveLoad, lis, grpcServer, srvStopOnce, lisState,
                 serveCallVars, bridgeVars, ackVars, serverVars, clientVars, authVars, envVars>>

\* delivery.go:109-112: s.lis is read; when set, the listener is closed; the
\* body is over and the one-shot spent.
serverCloseCheckLis(c) ==
  /\ scPc[c] = "checkLis"
  /\ lisState' = IF lis THEN "closed" ELSE lisState
  /\ srvStopOnce' = "done"
  /\ scPc' = [scPc EXCEPT ![c] = "done"]
  /\ UNCHANGED <<serveLoad, lis, grpcServer, grpcState, serveCallVars,
                 bridgeVars, ackVars, serverVars, clientVars, authVars, envVars>>

serverClose(c) ==
  \/ serverCloseCall(c)
  \/ serverCloseOnce(c)
  \/ serverCloseSkip(c)
  \/ serverCloseCheckSrv(c)
  \/ serverCloseStopped(c)
  \/ serverCloseCheckLis(c)

\* delivery.go:101,158: the serving gRPC server accepts a stream and runs
\* bridgeService.Stream on it in a task of its own.
bridgeAccept(s) ==
  /\ stPc[s] = "none"
  /\ s <= serveLoad.streams
  /\ servePc = "serving"
  /\ grpcState = "serving"
  /\ lisState = "open"
  /\ stPc' = [stPc EXCEPT ![s] = "recvFirst"]
  /\ UNCHANGED <<serveLoad, handleVars, serveCallVars, scPc, stRet, stFrames,
                 ackVars, serverVars, clientVars, authVars, envVars>>

\* delivery.go:160-167: the first Recv: an error or a frame that is no
\* Register ends the stream, a Register goes to OnRegister.
bridgeFirst(s) ==
  /\ stPc[s] = "recvFirst"
  /\ \/ /\ stPc' = [stPc EXCEPT ![s] = "done"]
        /\ stRet' = [stRet EXCEPT ![s] = "recv error"]
     \/ /\ stPc' = [stPc EXCEPT ![s] = "done"]
        /\ stRet' = [stRet EXCEPT ![s] = "register frame required"]
     \/ /\ stPc' = [stPc EXCEPT ![s] = "onRegister"]
        /\ UNCHANGED stRet
  /\ UNCHANGED <<serveLoad, handleVars, serveCallVars, scPc, stFrames,
                 ackVars, serverVars, clientVars, authVars, envVars>>

\* delivery.go:174-177: OnRegister returns: an error ends the stream, nil
\* defers OnClose and enters the loop.
bridgeOnRegister(s) ==
  /\ stPc[s] = "onRegister"
  /\ \/ /\ stPc' = [stPc EXCEPT ![s] = "done"]
        /\ stRet' = [stRet EXCEPT ![s] = "handler error"]
     \/ /\ stPc' = [stPc EXCEPT ![s] = "loop"]
        /\ UNCHANGED stRet
  /\ UNCHANGED <<serveLoad, handleVars, serveCallVars, scPc, stFrames,
                 ackVars, serverVars, clientVars, authVars, envVars>>

\* delivery.go:179-182: Recv returns an error: the stream's handler returns.
bridgeRecvError(s) ==
  /\ stPc[s] = "loop"
  /\ stPc' = [stPc EXCEPT ![s] = "onClose"]
  /\ stRet' = [stRet EXCEPT ![s] = "recv error"]
  /\ UNCHANGED <<serveLoad, handleVars, serveCallVars, scPc, stFrames,
                 ackVars, serverVars, clientVars, authVars, envVars>>

\* A handler error that stops the whole gRPC server.
bridgeDispatchFatal(s) ==
  /\ stPc[s] = "loop"
  /\ stFrames[s] < MaxDispatch
  /\ stFrames' = [stFrames EXCEPT ![s] = @ + 1]
  /\ \/ /\ stPc' = [stPc EXCEPT ![s] = "onClose"]
        /\ stRet' = [stRet EXCEPT ![s] = "handler error"]
        /\ grpcState' = "stopping"
        /\ lisState' = "closed"
     \/ UNCHANGED <<stPc, stRet, grpcState, lisState>>
  /\ UNCHANGED <<serveLoad, lis, grpcServer, srvStopOnce, serveCallVars, scPc,
                 ackVars, serverVars, clientVars, authVars, envVars>>

\* delivery.go:179-207: Recv returns a frame and the loop dispatches it to the
\* handler's callback: an error ends the stream, nil goes round the loop.
bridgeDispatch(s) ==
  /\ stPc[s] = "loop"
  /\ stFrames[s] < MaxDispatch
  /\ stFrames' = [stFrames EXCEPT ![s] = @ + 1]
  /\ \/ /\ stPc' = [stPc EXCEPT ![s] = "onClose"]
        /\ stRet' = [stRet EXCEPT ![s] = "handler error"]
     \/ UNCHANGED <<stPc, stRet>>
  /\ UNCHANGED <<serveLoad, handleVars, serveCallVars, scPc, ackVars,
                 serverVars, clientVars, authVars, envVars>>

\* delivery.go:178: the deferred OnClose runs and Stream returns.
bridgeOnClose(s) ==
  /\ stPc[s] = "onClose"
  /\ stPc' = [stPc EXCEPT ![s] = "done"]
  /\ UNCHANGED <<serveLoad, handleVars, serveCallVars, scPc, stRet, stFrames,
                 ackVars, serverVars, clientVars, authVars, envVars>>

bridgeStream(s) ==
  \/ bridgeAccept(s)
  \/ bridgeFirst(s)
  \/ bridgeOnRegister(s)
  \/ bridgeRecvError(s)
  \/ bridgeDispatch(s)
  \/ bridgeOnClose(s)

ListenNext ==
  \/ Serve
  \/ ServeCancel
  \/ \E c \in ServeClosers : serverClose(c)
  \/ \E s \in ServeStreams : bridgeStream(s)

(***************************************************************************)
(* Tokens: pkg/auth/simple_token.go, pkg/auth/redis_store.go and           *)
(* unnamed/part_000.  Time is counted in seconds.                          *)
(***************************************************************************)
\* The deployments the token functions are checked with: which functions are
\* called, the lifetime of the token (TTL, RefreshTTL or AccessTTL), the
\* ClockSkew leeway, and the TTL of version keys (WithTokenVersionTTL; 0 when
\* not configured).
AuthLoads ==
  { [kind |-> "simple", ttl |-> 3, clockSkew |-> 0, versionTTL |-> 0],
    [kind |-> "simple", ttl |-> 3, clockSkew |-> 1, versionTTL |-> 2],
    [kind |-> "refresh", ttl |-> 2, clockSkew |-> 1, versionTTL |-> 0],
    [kind |-> "access", ttl |-> 2, clockSkew |-> 0, versionTTL |-> 0],
    [kind |-> "access", ttl |-> 2, clockSkew |-> 2, versionTTL |-> 0] }

NoAuthLoad == [kind |-> "none", ttl |-> 0, clockSkew |-> 0, versionTTL |-> 0]

\* An empty version store and blocklist, no simple token issued; in a
\* "refresh" deployment a refresh token generated and saved at time 0
\* (part_000:109-113), in an "access" one an access token generated at time 0.
AuthStart(l) ==
  /\ authLoad = l
  /\ now = 0
  /\ tokenVersion = 0
  /\ tokenVersionExp = 0
  /\ simpleTokens = <<>>
  /\ simpleRevokes = 0
  /\ simpleVerify = [tok |-> 0, ret |-> "none", superseded |-> FALSE]
  /\ refreshKey = (l.kind = "refresh")
  /\ rcPc = [c \in Consumers |-> "idle"]
  /\ rcRet = [c \in Consumers |-> "none"]
  /\ blockExp = 0
  /\ accRevoked = FALSE
  /\ accVerify = [ret |-> "none", revoked |-> FALSE]

\* A second passes.
Tick ==
  /\ authLoad.kind # "none"
  /\ now < MaxTime
  /\ now' = now + 1
  /\ UNCHANGED <<authLoad, simpleVars, refreshVars, accessVars, ackVars,
                 serverVars, clientVars, listenVars, envVars>>

\* jwt.ParseWithClaims with jwt.WithLeeway(cfg.ClockSkew) (simple_token.go:113-118,
\* part_000:134-139,186-188) on a well-formed token signed with the
\* configured secret that expires at exp: it is valid until exp plus the
\* leeway.
TokenValid(exp) == now < exp + authLoad.clockSkew

\* The user's version key exists: it was written and its TTL, if any, has not
\* run out.
VersionKeyLive ==
  tokenVersion > 0 /\ (tokenVersionExp = 0 \/ now < tokenVersionExp)

\* redis_store.go:179: INCR on the user's version key: a missing key counts
\* from 0.
IncrVersionValue == IF VersionKeyLive THEN tokenVersion + 1 ELSE 1

\* redis_store.go:184-186: EXPIRE when a TTL is configured; otherwise INCR
\* keeps what the key had.
IncrVersionExp ==
  IF authLoad.versionTTL > 0 THEN now + authLoad.versionTTL
  ELSE IF VersionKeyLive THEN tokenVersionExp ELSE 0

\* redis_store.go:196-200: GetVersion: 0 for a missing key.
GetVersion == IF VersionKeyLive THEN tokenVersion ELSE 0

\* Every token issued so far has had the version incremented after it.
Supersede(toks) ==
  [i \in 1..Len(toks) |-> [toks[i] EXCEPT !.superseded = TRUE]]

\* simple_token.go:56-100: GenerateSimpleToken for the user: IncrVersion, then
\* a token carrying the new version and expiring after cfg.TTL.
GenerateSimpleToken ==
  /\ authLoad.kind = "simple"
  /\ Len(simpleTokens) < MaxSimpleTokens
  /\ tokenVersion' = IncrVersionValue
  /\ tokenVersionExp' = IncrVersionExp
  /\ simpleTokens' =
       Append(Supersede(simpleTokens),
              [ver |-> IncrVersionValue, exp |-> now + authLoad.ttl,
               superseded |-> FALSE])
  /\ UNCHANGED <<authLoad, now, simpleRevokes, simpleVerify, refreshVars,
                 accessVars, ackVars, serverVars, clientVars, listenVars, envVars>>

\* simple_token.go:140-149: RevokeSimpleToken for the user: IncrVersion.
RevokeSimpleToken ==
  /\ authLoad.kind = "simple"
  /\ simpleRevokes < MaxSimpleRevokes
  /\ simpleRevokes' = simpleRevokes + 1
  /\ tokenVersion' = IncrVersionValue
  /\ tokenVersionExp' = IncrVersionExp
  /\ simpleTokens' = Supersede(simpleTokens)
  /\ UNCHANGED <<authLoad, now, simpleVerify, refreshVars, accessVars,
                 ackVars, serverVars, clientVars, listenVars, envVars>>

\* simple_token.go:102-138: what VerifySimpleToken returns for token t.
VerifySimpleTokenResult(t) ==
  IF ~TokenValid(t.exp) THEN "token is expired"
  ELSE IF t.ver # GetVersion THEN "token invalidated"
  ELSE "ok"

\* simple_token.go:102-138: VerifySimpleToken is called on the i-th token
\* issued.
VerifySimpleToken(i) ==
  /\ authLoad.kind = "simple"
  /\ i \in 1..Len(simpleTokens)
  /\ simpleVerify' = [tok |-> i,
                      ret |-> VerifySimpleTokenResult(simpleTokens[i]),
                      superseded |-> simpleTokens[i].superseded]
  /\ UNCHANGED <<authLoad, now, tokenVersion, tokenVersionExp, simpleTokens,
                 simpleRevokes, refreshVars, accessVars, ackVars, serverVars,
                 clientVars, listenVars, envVars>>

\* The refresh token's key exists: Save wrote it with TTL cfg.RefreshTTL
\* (redis_store.go:36) and no Consume has deleted it.
RefreshKeyLive == refreshKey /\ now < authLoad.ttl

\* part_000:180-203: ConsumeRefreshToken is called on the saved refresh token:
\* the token is parsed and validated.
ConsumeRefreshTokenCall(c) ==
  /\ authLoad.kind = "refresh"
  /\ rcPc[c] = "idle"
  /\ IF TokenValid(authLoad.ttl)
       THEN /\ rcPc' = [rcPc EXCEPT ![c] = "consume"]
            /\ UNCHANGED rcRet
       ELSE /\ rcPc' = [rcPc EXCEPT ![c] = "done"]
            /\ rcRet' = [rcRet EXCEPT ![c] = "token is expired"]
  /\ UNCHANGED <<authLoad, now, simpleVars, refreshKey, accessVars, ackVars,
                 serverVars, clientVars, listenVars, envVars>>

\* A store that reads the key and leaves it in place.
storeConsumeKeep(c) ==
  /\ rcPc[c] = "consume"
  /\ \/ /\ rcPc' = [rcPc EXCEPT ![c] = "done"]
        /\ rcRet' = [rcRet EXCEPT ![c] = "redis error"]
     \/ /\ RefreshKeyLive
        /\ rcPc' = [rcPc EXCEPT ![c] = "check"]
        /\ UNCHANGED rcRet
     \/ /\ ~RefreshKeyLive
        /\ rcPc' = [rcPc EXCEPT ![c] = "done"]
        /\ rcRet' = [rcRet EXCEPT ![c] = "refresh token not found"]
  /\ UNCHANGED <<authLoad, now, simpleVars, refreshKey, accessVars, ackVars,
                 serverVars, clientVars, listenVars, envVars>>

\* part_000:204-207, redis_store.go:39-56: store.Consume: one GETDEL, which
\* fails, or returns the value and deletes the key, or finds no key.
storeConsume(c) ==
  /\ rcPc[c] = "consume"
  /\ \/ /\ rcPc' = [rcPc EXCEPT ![c] = "done"]
        /\ rcRet' = [rcRet EXCEPT ![c] = "redis error"]
        /\ UNCHANGED refreshKey
     \/ /\ RefreshKeyLive
        /\ refreshKey' = FALSE
        /\ rcPc' = [rcPc EXCEPT ![c] = "check"]
        /\ UNCHANGED rcRet
     \/ /\ ~RefreshKeyLive
        /\ rcPc' = [rcPc EXCEPT ![c] = "done"]
        /\ rcRet' = [rcRet EXCEPT ![c] = "refresh token not found"]
        /\ UNCHANGED refreshKey
  /\ UNCHANGED <<authLoad, now, simpleVars, accessVars, ackVars, serverVars,
                 clientVars, listenVars, envVars>>

\* part_000:208-217: the metadata is that of the token it was saved with: the
\* claims are returned.
ConsumeRefreshTokenReturn(c) ==
  /\ rcPc[c] = "check"
  /\ rcPc' = [rcPc EXCEPT ![c] = "done"]
  /\ rcRet' = [rcRet EXCEPT ![c] = "ok"]
  /\ UNCHANGED <<authLoad, now, simpleVars, refreshKey, accessVars, ackVars,
                 serverVars, clientVars, listenVars, envVars>>

ConsumeRefreshToken(c) ==
  \/ ConsumeRefreshTokenCall(c)
  \/ storeConsume(c)
  \/ ConsumeRefreshTokenReturn(c)

\* part_000:228-234: the TTL RevokeAccessToken gives the blocklist entry: the
\* time left until the token's expiry, a second when none is left.
RevokeTTL == IF authLoad.ttl - now <= 0 THEN 1 ELSE authLoad.ttl - now

\* part_000:221-236, redis_store.go:78-83: RevokeAccessToken succeeds on the
\* claims of the access token: Block writes the key with that TTL.
RevokeAccessToken ==
  /\ authLoad.kind = "access"
  /\ ~accRevoked
  /\ blockExp' = now + RevokeTTL
  /\ accRevoked' = TRUE
  /\ UNCHANGED <<authLoad, now, simpleVars, refreshVars, accVerify, ackVars,
                 serverVars, clientVars, listenVars, envVars>>

\* redis_store.go:85-94: IsBlocked: the key exists.
IsBlocked == blockExp > 0 /\ now < blockExp

\* part_000:128-159: what VerifyAccessToken returns for the access token.
VerifyAccessTokenResult ==
  IF ~TokenValid(authLoad.ttl) THEN "token is expired"
  ELSE IF IsBlocked THEN "token revoked"
  ELSE "ok"

\* part_000:128-159: VerifyAccessToken is called on the access token, with
\* the blocklist.
VerifyAccessToken ==
  /\ authLoad.kind = "access"
  /\ accVerify' = [ret |-> VerifyAccessTokenResult, revoked |-> accRevoked]
  /\ UNCHANGED <<authLoad, now, simpleVars, refreshVars, blockExp, accRevoked,
                 ackVars, serverVars, clientVars, listenVars, envVars>>

AuthNext ==
  \/ Tick
  \/ GenerateSimpleToken
  \/ RevokeSimpleToken
  \/ \E i \in 1..MaxSimpleTokens : VerifySimpleToken(i)
  \/ \E c \in Consumers : ConsumeRefreshToken(c)
  \/ RevokeAccessToken
  \/ VerifyAccessToken

(***************************************************************************)
(* Envelope defaults: pkg/envelope/envelope.go.                            *)
(***************************************************************************)
\* The request ids uuid.NewString can return and the times timestamppb.Now
\* can return: never the empty string, never the zero time.
EnvIds == {"r1", "r2"}
EnvTimes == {"t1", "t2"}

\* A nil *Message.
NilMessage ==
  [isNil |-> TRUE, Version |-> "", RequestId |-> "", Metadata |-> "nil",
   Timestamp |-> "nil"]

\* The messages a caller may hand over: nil, or any combination of a version
\* left empty, set to the current one or to another; a request id left empty
\* or set; metadata nil, empty or with fields; a timestamp that is nil, holds
\* the zero time, or holds a time.
Messages ==
  {NilMessage} \cup
  [isNil : {FALSE}, Version : {"", Version, "v0"}, RequestId : {"", "r0"},
   Metadata : {"nil", "empty", "fields"}, Timestamp : {"nil", "zero", "t0"}]

\* A nil *TransportEnvelope.
NilEnvelope ==
  [isNil |-> TRUE, Message |-> NilMessage, Attributes |-> "nil",
   CreatedAt |-> "nil", EnvelopeVersion |-> ""]

Envelopes ==
  {NilEnvelope} \cup
  [isNil : {FALSE}, Message : Messages, Attributes : {"nil", "empty", "attrs"},
   CreatedAt : {"nil", "zero", "t0"}, EnvelopeVersion : {"", Version, "v0"}]

\* A normalization that stamps the message with the current time on every
\* call.
NormalizeMessageRestamp(msg, id, stamp) ==
  IF msg.isNil
    THEN msg
    ELSE [msg EXCEPT
            !.Version = IF @ = "" THEN Version ELSE @,
            !.RequestId = IF @ = "" THEN id ELSE @,
            !.Metadata = IF @ = "nil" THEN "empty" ELSE @,
            !.Timestamp = stamp]

\* envelope.go:29-46: NormalizeMessage, with the id uuid.NewString returns
\* and the time timestamppb.Now returns if they are called: nothing for a nil
\* message; Version, RequestId, Metadata and Timestamp are filled where they
\* are empty, nil, or (Timestamp) the zero time.
NormalizeMessage(msg, id, stamp) ==
  IF msg.isNil
    THEN msg
    ELSE [msg EXCEPT
            !.Version = IF @ = "" THEN Version ELSE @,
            !.RequestId = IF @ = "" THEN id ELSE @,
            !.Metadata = IF @ = "nil" THEN "empty" ELSE @,
            !.Timestamp = IF @ = "nil" \/ @ = "zero" THEN stamp ELSE @]

\* envelope.go:66-81: NormalizeEnvelope: nothing for a nil envelope; the
\* message is normalized, then Attributes, CreatedAt (a second call of
\* timestamppb.Now) and EnvelopeVersion are filled where they are nil, the
\* zero time, or empty.
NormalizeEnvelope(e, id, stamp, created) ==
  IF e.isNil
    THEN e
    ELSE [e EXCEPT
            !.Message = NormalizeMessage(@, id, stamp),
            !.Attributes = IF @ = "nil" THEN "empty" ELSE @,
            !.CreatedAt = IF @ = "nil" \/ @ = "zero" THEN created ELSE @,
            !.EnvelopeVersion = IF @ = "" THEN Version ELSE @]

\* An envelope as its producer built it, not normalized yet.
EnvStart(e) ==
  /\ env = e
  /\ envCalls = 0

\* A call of NormalizeEnvelope(&env): by the producer first, then by a
\* component downstream.
NormalizeCall ==
  /\ envCalls < MaxNormalizeCalls
  /\ \E id \in EnvIds, stamp \in EnvTimes, created \in EnvTimes :
       env' = NormalizeEnvelope(env, id, stamp, created)
  /\ envCalls' = envCalls + 1
  /\ UNCHANGED <<ackVars, serverVars, clientVars, listenVars, authVars>>

(***************************************************************************)
(* The specifications.                                                     *)
(***************************************************************************)
\* A Delivery built by newDelivery (delivery.go:20-25), with or without an
\* acknowledgement function.
AckInit ==
  /\ \E b \in BOOLEAN : AckStart(b)
  /\ ServerStart
  /\ ClientStart(NoLoad, FALSE)
  /\ ListenStart(NoServeLoad)
  /\ AuthStart(NoAuthLoad)
  /\ EnvStart(NilEnvelope)

SpecAck == AckInit /\ [][AckNext]_vars

\* A stream the transport has just handed to bridgeService.Stream.
ServerInit ==
  /\ AckStart(TRUE)
  /\ ServerStart
  /\ ClientStart(NoLoad, FALSE)
  /\ ListenStart(NoServeLoad)
  /\ AuthStart(NoAuthLoad)
  /\ EnvStart(NilEnvelope)

SpecServer == ServerInit /\ [][ServerNext]_vars

\* A client NewClient has returned (part_003:50-81), with or without a slot
\* pool.
Init ==
  /\ AckStart(TRUE)
  /\ ServerStart
  /\ \E l \in Loads, bp \in BOOLEAN :
       /\ l.publishers = 0 => ~bp
       /\ ClientStart(l, bp)
  /\ ListenStart(NoServeLoad)
  /\ AuthStart(NoAuthLoad)
  /\ EnvStart(NilEnvelope)

Spec == Init /\ [][Next]_vars

\* The same client under a scheduler that keeps running the supervisor task
\* and every PublishIngress call in progress while they have a step to take.
SpecLive ==
  /\ Init
  /\ [][Next]_vars
  /\ WF_vars(run)
  /\ \A p \in Publishers : WF_vars(PublishProgress(p))

\* The client in the workloads whose Start context gets cancelled: these have
\* no Close, Drain or PublishIngress caller and no inbound frame.
StopInit ==
  /\ AckStart(TRUE)
  /\ ServerStart
  /\ \E l \in {x \in Loads : x.cancelTop} : ClientStart(l, FALSE)
  /\ ListenStart(NoServeLoad)
  /\ AuthStart(NoAuthLoad)
  /\ EnvStart(NilEnvelope)

\* The steps of Next that these workloads can take.
StopNext ==
  \/ \E s \in Starters : Start(s)
  \/ run
  \/ \E k \in Conns :
       heartbeatLoop(k) \/ consumeRecv(k) \/ consumeRecvError(k) \/ consumeSignal(k)
  \/ CancelTop

\* That client under a scheduler that keeps running the supervisor task, lets
\* a heartbeat Send in progress return, and lets the select of heartbeatLoop
\* (part_003:311-316) take its ctx.Done case: Go chooses at random among the
\* ready cases of a select, so a case that is ready whenever the select is
\* evaluated is taken eventually.
SpecStop ==
  /\ StopInit
  /\ [][StopNext]_vars
  /\ WF_vars(run)
  /\ \A k \in Conns : WF_vars(sendHeartbeatDone(k)) /\ SF_vars(heartbeatStop(k))

\* A server NewServer has returned (delivery.go:58-64).
ListenInit ==
  /\ AckStart(TRUE)
  /\ ServerStart
  /\ ClientStart(NoLoad, FALSE)
  /\ \E l \in ServeLoads : ListenStart(l)
  /\ AuthStart(NoAuthLoad)
  /\ EnvStart(NilEnvelope)

SpecListen == ListenInit /\ [][ListenNext]_vars

\* The token functions over one user's version key, one saved refresh token
\* and one access token.
AuthInit ==
  /\ AckStart(TRUE)
  /\ ServerStart
  /\ ClientStart(NoLoad, FALSE)
  /\ ListenStart(NoServeLoad)
  /\ \E l \in AuthLoads : AuthStart(l)
  /\ EnvStart(NilEnvelope)

SpecAuth == AuthInit /\ [][AuthNext]_vars

\* An envelope out of the bounded set of envelopes, normalized again and
\* again.
EnvInit ==
  /\ AckStart(TRUE)
  /\ ServerStart
  /\ ClientStart(NoLoad, FALSE)
  /\ ListenStart(NoServeLoad)
  /\ AuthStart(NoAuthLoad)
  /\ \E e \in Envelopes : EnvStart(e)

SpecEnvelope == EnvInit /\ [][NormalizeCall]_vars

(***************************************************************************)
(* The claims.                                                             *)
(***************************************************************************)

\* C1 (SpecAck): on a Delivery with a bound acknowledgement function the
\* function is invoked at most once, exactly once as soon as any Ack call has
\* got past the one-shot guard, and every Ack call that has returned, the
\* first and the later ones, returned the result of that one invocation (a
\* failed acknowledgement is not retried).
C1_AckOnce ==
  ackFnBound =>
    /\ Len(ackInvoked) <= 1
    /\ \A a \in AckCallers :
         /\ ackPc[a] = "read" => Len(ackInvoked) = 1
         /\ ackRet[a] # "none" =>
              Len(ackInvoked) = 1 /\ ackRet[a] = ackInvoked[1]

\* Two callers have returned the error of the single, failed invocation, one
\* of them from its second call.
C1_Witness ==
  /\ ackFnBound
  /\ ackInvoked = <<"e1">>
  /\ ackRet[1] = "e1"
  /\ ackRet[2] = "e1"
  /\ ackRound[1] = 2

SlotHolders == {p \in Publishers : pubSlot[p]}

\* C2 (Spec): with the slot pool enabled, at most MaxInFlightDeliver
\* PublishIngress calls are between their slot acquire and their slot release,
\* and while that many hold a slot no further call can get past acquireSlot.
C2_BackpressureBound ==
  backpressure =>
    /\ Cardinality(SlotHolders) <= MaxInFlightDeliver
    /\ Cardinality(SlotHolders) = MaxInFlightDeliver =>
         \A p \in Publishers : pubPc[p] = "acquire" => ~ENABLED acquireSlot(p)

\* The pool is exhausted by a call that is inside the stream write while
\* another call waits in acquireSlot.
C2_Witness ==
  /\ backpressure
  /\ Cardinality(SlotHolders) = MaxInFlightDeliver
  /\ \E p, q \in Publishers :
       /\ pubPc[p] = "send"
       /\ pubSlot[p]
       /\ pubPc[q] = "acquire"
       /\ ~pubSlot[q]

\* C3 (SpecServer): a stream whose first frame is not a Register frame is
\* rejected with the "register frame required" error and no handler callback
\* is invoked on it.
C3_FirstFrameMustRegister ==
  svFirst.kind \notin {"none", "Register"} =>
    /\ svLog = <<>>
    /\ svMeta = "none"
    /\ svPc = "returned"
    /\ svRet = "errRegisterRequired"

\* A stream that began with an Ingress frame carrying an envelope was rejected.
C3_Witness ==
  /\ svFirst = [kind |-> "Ingress", arg |-> "env"]
  /\ svRet = "errRegisterRequired"
  /\ svLog = <<>>

OnRegisterCount == Cardinality({i \in 1..Len(svLog) : svLog[i] = "OnRegister"})

\* C4 (SpecServer): OnRegister is invoked at most once per stream and the
\* session's metadata, and what Metadata() returns, stay those of the first
\* Register frame; reading a Register frame on a registered stream invokes no
\* callback, changes no metadata, returns no error and leaves the loop at its
\* next read.
C4_DuplicateRegisterIgnored ==
  /\ [](/\ OnRegisterCount <= 1
        /\ svMeta # "none" => svMeta = svFirst.arg
        /\ metaRead # "none" => metaRead = svFirst.arg)
  /\ [][(svPc = "recv" /\ svFrames' = svFrames + 1 /\ svCur'.kind = "Register")
          => /\ svPc' = "recv"
             /\ svLog' = svLog
             /\ svMeta' = svMeta
             /\ svRet' = "none"]_vars

\* A second Register frame with other metadata has been read on a registered
\* stream, and Metadata() has returned the first frame's metadata after it.
C4_Witness ==
  /\ svFrames >= 2
  /\ svCur.kind = "Register"
  /\ svCur.arg # svFirst.arg
  /\ svPc = "recv"
  /\ svMeta = svFirst.arg
  /\ metaRead = svFirst.arg
  /\ svLog = <<"OnRegister">>

\* C5 (Spec): no two writes to one client stream are in progress at the same
\* time.
C5_NoConcurrentWrites ==
  \A k \in Conns : Cardinality(writers[k]) <= 1

\* C6 (SpecServer): at most one caller of SendDeliver, SendBroadcast and
\* SendHeartbeat is inside the session's stream write, and it holds the
\* session's send lock.
C6_SessionSendExclusive ==
  /\ Cardinality(sessWriters) <= 1
  /\ \A s \in sessWriters : sessMu = s /\ sndPc[s] = "write"

\* One caller is inside the stream write while another waits for the lock.
C6_Witness ==
  \E s, u \in Senders :
    /\ s # u
    /\ s \in sessWriters
    /\ sndPc[u] = "lock"
    /\ sndKind[s] = "Deliver"
    /\ sndKind[u] = "Heartbeat"

\* C7 (Spec): as long as no stream of the client has been registered, every
\* PublishIngress call has returned ErrNotStarted at once: no call is past the
\* started check, none holds a slot, none has written a frame.
C7_NotStarted ==
  registered = {} =>
    /\ ~started
    /\ inflight = 0
    /\ \A k \in Conns : \A p \in Publishers : PubProc(p) \notin writers[k]
    /\ \A p \in Publishers :
         /\ pubPc[p] \in {"idle", "done"}
         /\ pubPc[p] = "done" => pubRet[p] = "ErrNotStarted"
         /\ ~pubSlot[p]
         /\ ~pubWrote[p]

\* Start has returned and the first connect attempt is sending its Register
\* frame; a PublishIngress call made with the slot pool enabled has returned
\* ErrNotStarted.
C7_Witness ==
  /\ backpressure
  /\ supervisors = 1
  /\ runPc = "registering"
  /\ attempt = 1
  /\ registered = {}
  /\ \E p \in Publishers : pubPc[p] = "done" /\ pubRet[p] = "ErrNotStarted"

\* C8 (Spec): however many Start calls are made, at most one supervisor task
\* is started, exactly one once a call has returned; every call returns nil;
\* and a call waits for nothing but the one-shot guard: the first caller can
\* always go on to start the supervisor, and a later caller returns as soon as
\* the first has.
C8_StartOnce ==
  /\ supervisors <= 1
  /\ \A s \in Starters :
       /\ startRet[s] \in {"none", "nil"}
       /\ startPc[s] = "done" => supervisors = 1 /\ startRet[s] = "nil"
       /\ (Alive /\ startPc[s] = "spawn") => ENABLED StartSpawn(s)
       /\ (Alive /\ startPc[s] = "idle" /\ s <= load.starters
             /\ startOnce = "done") => ENABLED StartSkip(s)

\* Two Start calls have returned nil while the only connect attempt so far
\* has failed and no stream is registered.
C8_Witness ==
  /\ startPc[1] = "done"
  /\ startPc[2] = "done"
  /\ startRet[1] = "nil"
  /\ startRet[2] = "nil"
  /\ supervisors = 1
  /\ runPc = "backoff"
  /\ registered = {}

\* C9 (Spec): however many Close calls are made, the teardown body runs at
\* most once and each subscription channel is closed at most once; once a
\* Close call has returned the body has run exactly once and both channels
\* are closed; and a Close call made after the teardown has completed changes
\* nothing of the client but the caller's own position.
C9_CloseOnce ==
  /\ [](/\ closeRuns <= 1
        /\ deliverClosed <= 1
        /\ broadcastClosed <= 1
        /\ \A c \in Closers :
             closePc[c] = "done" =>
               /\ closeRuns = 1
               /\ deliverClosed = 1
               /\ broadcastClosed = 1
               /\ closed)
  /\ [][\A c \in Closers :
         (stopOnce = "done" /\ closePc[c] = "idle" /\ closePc'[c] # "idle")
           => /\ closePc'[c] = "done"
              /\ UNCHANGED <<lifeVars, connVars, chanVars, startVars, runVars,
                             hbVars, csVars, pubVars, closeTmp, closeRuns,
                             sendMu, inflight, wg, writers, panicked>>]_vars

\* Two Close calls have returned on a client that had a live connection.
C9_Witness ==
  /\ closePc[1] = "done"
  /\ closePc[2] = "done"
  /\ registered # {}
  /\ deliverClosed = 1
  /\ broadcastClosed = 1

\* Every task the client started has returned.
ClientQuiescent ==
  /\ runPc = "done"
  /\ \A k \in Conns : hbPc[k] \in {"none", "done"} /\ csPc[k] \in {"none", "done"}

\* C10 (Spec): once the context passed to Start is cancelled, Close was never
\* called and every task of the client has run to its end, both subscription
\* channels have been closed, each exactly once.
C10_ChannelsClosedAfterCancel ==
  (topDone /\ stopOnce = "idle" /\ registered # {} /\ ClientQuiescent) =>
    deliverClosed = 1 /\ broadcastClosed = 1

\* The callbacks the serving loop dispatches frames to.
FrameHandlers == {"OnIngress", "OnAck", "OnHeartbeat"}

OnCloseCount == Cardinality({i \in 1..Len(svLog) : svLog[i] = "OnClose"})

\* C18 (SpecServer): on a stream that has ended and on which OnRegister was
\* invoked, OnClose has been invoked, whatever ended the stream.
C18_OnCloseAfterRegister ==
  (svPc = "returned" /\ OnRegisterCount = 1) => OnCloseCount = 1

\* C19 (SpecServer): while OnRegister runs, and for ever if it returned an
\* error, it is the only callback invoked on the stream; every OnIngress,
\* OnAck and OnHeartbeat comes after the OnRegister that opens the log and
\* before any OnClose; OnClose is invoked at most once and is the last
\* callback of the stream.
C19_CallbackOrder ==
  /\ svPc = "onRegister" => svLog = <<"OnRegister">>
  /\ svRet = "errOnRegister" => svLog = <<"OnRegister">>
  /\ OnCloseCount <= 1
  /\ \A i \in 1..Len(svLog) :
       /\ svLog[i] \in FrameHandlers =>
            /\ i > 1
            /\ svLog[1] = "OnRegister"
            /\ \A j \in 1..i : svLog[j] # "OnClose"
       /\ svLog[i] = "OnClose" => i = Len(svLog) /\ svLog[1] = "OnRegister"

\* A registered stream dispatched an Ingress and an Ack frame, then its read
\* failed and OnClose was invoked last.
C19_Witness ==
  /\ svLog = <<"OnRegister", "OnIngress", "OnAck", "OnClose">>
  /\ svPc = "returned"
  /\ svRet = "errRecv"

\* C20 (SpecServer): once a callback of the serving loop or a stream read has
\* returned an error, the loop has stopped: the function is on its way out or
\* has returned, it returns exactly that error (the error of the callback
\* invoked last), no further frame is read and no further callback
\* dispatched; and a stream that has returned does nothing more.
C20_ErrorEndsLoop ==
  /\ [](svPending # "none" =>
          /\ svPc \in {"onClose", "returned"}
          /\ svPc = "returned" => svRet = svPending
          /\ svLog[Len(svLog)] = "OnClose"
          /\ svPending # "errRecv" =>
               svPending = "err" \o svLog[Len(svLog) - 1])
  /\ [][(svPending # "none" \/ svRet # "none") =>
          /\ svFrames' = svFrames
          /\ svLog' = svLog
          /\ svPending' = svPending
          /\ svRet # "none" => svRet' = svRet]_vars

\* OnIngress failed on the second frame: the stream returned that error with
\* frames still to come.
C20_Witness ==
  /\ svRet = "errOnIngress"
  /\ svPc = "returned"
  /\ svFrames = 2
  /\ svLog = <<"OnRegister", "OnIngress", "OnClose">>

\* C15 (Spec): when the supervisor is about to begin a connect attempt,
\* nothing of an earlier attempt is left in the client (no cancel function, no
\* connection, no stream), and the client never has more than one open
\* transport connection.
C15_FailedConnectTornDown ==
  /\ runPc = "loop" => (cancel = 0 /\ conn = 0 /\ stream = 0)
  /\ Cardinality(connOpen) <= 1

\* C17 (Spec): a PublishIngress call enters stream.Send at most once; a write
\* by a caller begins only in a call that has not written yet, on the stream
\* the client has at that moment; so no frame of a call that has written, or
\* whose write failed, is written again after a reconnect.
C17_NoReplay ==
  /\ [](\A p \in Publishers :
          /\ pubSends[p] <= 1
          /\ pubPc[p] = "send" => pubSends[p] = 1
          /\ pubWrote[p] => pubSends[p] = 1)
  /\ [][\A p \in Publishers : \A k \in Conns :
          (PubProc(p) \in writers'[k] /\ PubProc(p) \notin writers[k]) =>
            /\ pubPc[p] = "lock"
            /\ pubSends[p] = 0
            /\ pubSends'[p] = 1
            /\ k = stream]_vars

\* A call's write failed on the first connection; the client has since
\* registered a second stream, on which nothing is being written, and the
\* call has returned the error having written once.
C17_Witness ==
  /\ registered = {1, 2}
  /\ runPc = "wait"
  /\ stream = 2
  /\ writers[2] = {}
  /\ \E p \in Publishers :
       pubPc[p] = "done" /\ pubRet[p] = "sendErr" /\ pubSends[p] = 1

StrictlyIncreasing(s) == \A i, j \in 1..Len(s) : i < j => s[i] < s[j]

\* The envelopes a receive loop has read and is about to push to the deliver
\* channel (to the broadcast channel).
PendingDeliver ==
  {csEnv[k] : k \in {c \in Conns : csPc[c] = "pushDeliver"}}

PendingBroadcast ==
  {csEnv[k] : k \in {c \in Conns : csPc[c] = "pushBroadcast"}}

\* C16 (Spec): on a client that has opened one stream only (envelopes are
\* numbered by their position on the stream), the envelopes subscribers have
\* taken off the deliver channel followed by those still queued in it are in
\* strictly increasing stream order, an envelope about to be pushed comes
\* after all of them, and likewise for the broadcast channel; no envelope is
\* in both channels.
C16_ChannelFifo ==
  Cardinality(streamOpen) <= 1 =>
    /\ StrictlyIncreasing(deliverOut \o deliverCh)
    /\ StrictlyIncreasing(broadcastOut \o broadcastCh)
    /\ \A e \in PendingDeliver :
         \A i \in 1..Len(deliverOut \o deliverCh) : (deliverOut \o deliverCh)[i] < e
    /\ \A e \in PendingBroadcast :
         \A i \in 1..Len(broadcastOut \o broadcastCh) :
           (broadcastOut \o broadcastCh)[i] < e
    /\ \A i \in 1..Len(deliverOut \o deliverCh) :
         \A j \in 1..Len(broadcastOut \o broadcastCh) :
           (deliverOut \o deliverCh)[i] # (broadcastOut \o broadcastCh)[j]

\* Three Deliver frames of one connection have been handed to the subscriber
\* in stream order.
C16_Witness ==
  /\ Cardinality(streamOpen) = 1
  /\ deliverOut = <<1, 2, 3>>
  /\ broadcastOut = <<>>

Min(a, b) == IF a < b THEN a ELSE b

\* C13 (Spec): with a base interval that does not exceed the ceiling, the
\* interval the supervisor waits after a failed connect attempt that follows
\* k waits since Start or since the last successful connect is
\* min(base * 2^k, ceiling); while a connection is up the interval is back at
\* the base and the count at zero, so the next failure waits the base again.
C13_BackoffSchedule ==
  BaseRetry <= MaxRetry =>
    /\ runPc = "backoff" => retry = Min(BaseRetry * 2^fails, MaxRetry)
    /\ runPc = "wait" => (retry = BaseRetry /\ fails = 0)

\* With base 1 and ceiling 3, the third failure in a row waits 3, not 4.
C13_Witness ==
  /\ load.backoff = 1
  /\ load.maxBackoff = 3
  /\ runPc = "backoff"
  /\ attempt = 3
  /\ fails = 2
  /\ retry = 3

\* No task of the client is running: the supervisor, and the heartbeat and
\* receive tasks of every connection, have returned or were never started.
TasksTerminated ==
  /\ runPc \in {"none", "done"}
  /\ \A k \in Conns : hbPc[k] \in {"none", "done"} /\ csPc[k] \in {"none", "done"}

\* C11 (Spec): at the moment a Drain call returns nil, the supervisor and the
\* heartbeat and receive tasks of every connection have terminated.
C11_DrainNilAllTasksDone ==
  [][\A c \in Closers :
       (drainRet[c] = "none" /\ drainRet'[c] = "nil") => TasksTerminated]_vars

\* C12 (Spec): a Drain call made with a context that had expired before the
\* call never returns nil.
C12_ExpiredDrainReturnsError ==
  load.drainExpired => \A c \in Closers : drainRet[c] # "nil"

\* The supervisor has been handed a read error of the live connection while
\* its context is not cancelled and Close has not been called.
RecvErrorPending ==
  /\ Alive
  /\ runPc = "wait"
  /\ recvErr # 0
  /\ recvErrBuf[recvErr] > 0
  /\ ~RunCtxDone
  /\ stopOnce = "idle"

CloseReturned == \E c \in Closers : closePc[c] = "done"

\* C23 (Spec): once a Close call has returned, no supervisor task is started,
\* no transport connection is opened and no stream is registered any more.
C23_NotReusableAfterClose ==
  [][CloseReturned =>
       /\ supervisors' = supervisors
       /\ connOpen' \subseteq connOpen
       /\ registered' \subseteq registered]_vars

\* The PublishIngress calls in progress.
PublishInProgress == {p \in Publishers : pubPc[p] \notin {"idle", "done"}}

\* C24 (Spec): with the slot pool enabled, the tokens in the pool are exactly
\* those of the calls between their acquire and their release, so the pool is
\* empty whenever no call is in progress; the step by which such a call
\* returns, after a successful or a failed write, takes exactly one token
\* out, and the return of a call whose context was cancelled while it waited
\* for a slot takes none.
C24_SlotReleased ==
  /\ [](backpressure =>
          /\ inflight = Cardinality(SlotHolders)
          /\ SlotHolders \subseteq PublishInProgress
          /\ \A p \in Publishers :
               pubSlot[p] <=> pubPc[p] \in {"lock", "send", "release"}
          /\ PublishInProgress = {} => inflight = 0)
  /\ [][backpressure =>
          \A p \in Publishers :
            /\ (pubPc[p] = "release" /\ pubPc'[p] = "done") =>
                 (pubSlot[p] /\ ~pubSlot'[p] /\ inflight' = inflight - 1)
            /\ (pubPc[p] = "acquire" /\ pubPc'[p] = "done") =>
                 (~pubSlot'[p] /\ inflight' = inflight)]_vars

\* With the pool enabled one call has returned after a failed write and
\* another after its context was cancelled in the slot wait; no call is in
\* progress and the pool is empty.
C24_Witness ==
  /\ backpressure
  /\ PublishInProgress = {}
  /\ inflight = 0
  /\ \E p, q \in Publishers :
       /\ pubPc[p] = "done" /\ pubRet[p] = "sendErr"
       /\ pubPc[q] = "done" /\ pubRet[q] = "ctxErr"

\* Caller p waits in acquireSlot for a slot of the full pool and its context
\* is done.
CancelledInSlotWait(p) ==
  /\ Alive
  /\ backpressure
  /\ pubPc[p] = "acquire"
  /\ pubCtxDone[p]
  /\ inflight = MaxInFlightDeliver

FramesRead(kd) == {i \in 1..Len(inKinds) : inKinds[i] = kd}

SeqRange(s) == {s[i] : i \in 1..Len(s)}

\* Receive task k is about to push onto a subscription channel that is full.
BlockedOnFull(k) ==
  \/ csPc[k] = "pushDeliver" /\ Len(deliverCh) = DeliverCap
  \/ csPc[k] = "pushBroadcast" /\ Len(broadcastCh) = BroadcastCap

\* C29 (Spec): the deliver and the broadcast channel never hold more than
\* their capacity, which is the buffer option, or 128 when the option is <= 0;
\* a receive task whose push finds its channel full reads no frame (it is not
\* at Recv and cannot get there), and while the channel is open it takes no
\* step at all; its next step is the push, which happens only after a
\* subscriber took an envelope off that channel (or the channel was closed);
\* every Deliver and every Broadcast envelope read off the stream is with a
\* subscriber, in its channel, or in the hand of the task about to push it.
C29_FullChannelBlocksReceive ==
  /\ [](/\ Len(deliverCh) <= DeliverCap
        /\ Len(broadcastCh) <= BroadcastCap
        /\ DeliverCap = (IF load.deliverBuffer <= 0 THEN 128
                         ELSE load.deliverBuffer)
        /\ BroadcastCap = (IF load.broadcastBuffer <= 0 THEN 128
                           ELSE load.broadcastBuffer)
        /\ \A k \in Conns :
             BlockedOnFull(k) =>
               /\ ~ENABLED consumeRecv(k)
               /\ ~ENABLED consumeFrame(k)
               /\ (csPc[k] = "pushDeliver" /\ deliverClosed = 0)
                    => ~ENABLED consume(k)
               /\ (csPc[k] = "pushBroadcast" /\ broadcastClosed = 0)
                    => ~ENABLED consume(k)
        /\ FramesRead("Deliver")
             = SeqRange(deliverOut) \cup SeqRange(deliverCh) \cup PendingDeliver
        /\ FramesRead("Broadcast")
             = SeqRange(broadcastOut) \cup SeqRange(broadcastCh)
                 \cup PendingBroadcast)
  /\ [][\A k \in Conns :
          (BlockedOnFull(k) /\ Alive') =>
            /\ inbound' = inbound
            /\ csPc'[k] = csPc[k]
            /\ csEnv'[k] = csEnv[k]]_vars

\* A receive task holds the second Deliver envelope while the first fills the
\* deliver channel and no subscriber has taken anything yet.
C29_Witness ==
  /\ Alive
  /\ \E k \in Conns :
       /\ csPc[k] = "pushDeliver"
       /\ csEnv[k] = 2
       /\ BlockedOnFull(k)
  /\ deliverCh = <<1>>
  /\ deliverOut = <<>>
  /\ deliverClosed = 0


\* What the supervisor and the connection's teardown are made of: the
\* supervisor's position and counters, the receive-error channel, the
\* connection handles and contexts, the task count and the receive tasks.
SupervisionState ==
  <<runVars, cancel, conn, stream, recvErr, recvErrBuf, connCancelled,
    connOpen, streamOpen, sendClosed, registered, csVars, wg, started, closed,
    stopOnce, runCancelled, topDone, panicked, chanVars>>

\* C30 (Spec): the return of a heartbeat Send, failed or not, leaves the
\* heartbeat task in its loop and changes nothing of the supervisor, the
\* receive-error channel, the connection handles and contexts or the receive
\* tasks, and a failed one puts no frame on the stream; a heartbeat task whose last Send failed is still in its loop (or
\* sending again, or stopped by its cancelled context); a heartbeat task
\* returns only from its loop with its context done; and the supervisor
\* leaves its connected wait only with a receive error taken off the
\* receive-error channel or with its context cancelled.
C30_HeartbeatFailureIgnored ==
  /\ [][\A k \in Conns :
          (hbPc[k] = "send" /\ hbPc'[k] # "send" /\ Alive') =>
            /\ hbPc'[k] = "loop"
            /\ SupervisionState' = SupervisionState
            /\ hbFailed'[k] => firstFrame' = firstFrame]_vars
  /\ [][\A k \in Conns :
          (hbPc[k] # "done" /\ hbPc'[k] = "done") =>
            hbPc[k] = "loop" /\ CtxDone(k)]_vars
  /\ [][(runPc = "wait" /\ runPc' # "wait") =>
          \/ RunCtxDone
          \/ /\ recvErr # 0
             /\ recvErrBuf[recvErr] > 0
             /\ recvErrBuf'[recvErr] = recvErrBuf[recvErr] - 1]_vars
  /\ [](\A k \in Conns :
          (hbFailed[k] /\ hbPc[k] = "done") => CtxDone(k))

\* A heartbeat Send has failed on a connection whose supervisor still waits
\* connected, with no receive error reported and nothing cancelled, and the
\* heartbeat task is back in its loop.
C30_Witness ==
  /\ Alive
  /\ runPc = "wait"
  /\ ~RunCtxDone
  /\ recvErr # 0
  /\ recvErrBuf[recvErr] = 0
  /\ hbFailed[recvErr]
  /\ hbPc[recvErr] = "loop"
  /\ recvErr \notin connCancelled
  /\ recvErr \in connOpen
  /\ csPc[recvErr] \in {"top", "recv"}


\* C21 (SpecListen): the step in which a handler callback error ends a
\* stream changes nothing of any other stream, of the listener, of the gRPC
\* server, of the Serve call or of the Close calls; every other stream that is
\* in its loop still has its next frame dispatched, and a stream not yet
\* opened is still accepted while the server serves; the gRPC server stops
\* and the listener closes only inside Close.
C21_HandlerErrorEndsOneStream ==
  /\ [][\A s \in ServeStreams :
          (stRet[s] # "handler error" /\ stRet'[s] = "handler error") =>
            /\ \A u \in ServeStreams \ {s} :
                 /\ stPc'[u] = stPc[u]
                 /\ stRet'[u] = stRet[u]
                 /\ stFrames'[u] = stFrames[u]
            /\ handleVars' = handleVars
            /\ serveCallVars' = serveCallVars
            /\ scPc' = scPc]_vars
  /\ [](\A s \in ServeStreams :
          stRet[s] = "handler error" =>
            \A u \in ServeStreams \ {s} :
              /\ (stPc[u] = "loop" /\ stFrames[u] < MaxDispatch)
                   => ENABLED bridgeDispatch(u)
              /\ (/\ stPc[u] = "none"
                  /\ u <= serveLoad.streams
                  /\ servePc = "serving"
                  /\ srvStopOnce = "idle")
                   => ENABLED bridgeAccept(u))
  /\ [](srvStopOnce = "idle" =>
          /\ grpcState \notin {"stopping", "stopped"}
          /\ lisState # "closed")

\* One stream was ended by a handler error, a second one is registered and
\* has had a frame dispatched, a third is yet to be opened, and the server
\* serves with nothing asking it to stop.
C21_Witness ==
  /\ servePc = "serving"
  /\ grpcState = "serving"
  /\ lisState = "open"
  /\ srvStopOnce = "idle"
  /\ ~serveCtxDone
  /\ stPc[1] = "done"
  /\ stRet[1] = "handler error"
  /\ stFrames[1] > 0
  /\ stPc[2] = "loop"
  /\ stFrames[2] = 1
  /\ stPc[3] = "none"

\* C22 (SpecListen): a Serve call that is blocked serving, with its listener
\* open and its gRPC server not asked to stop, can still be stopped by Close
\* or by its context: the one-shot of Close is not spent.
C22_ServeStopsOnClose ==
  (servePc = "serving" /\ grpcState = "serving" /\ lisState = "open")
    => srvStopOnce # "done"


\* C26 (SpecAuth): a VerifySimpleToken call on a token of the user made after
\* the user's version was incremented later than the token's issue, by
\* GenerateSimpleToken or by RevokeSimpleToken, does not succeed.
C26_SupersededTokenRejected ==
  simpleVerify.superseded => simpleVerify.ret # "ok"

\* The ConsumeRefreshToken calls that got the stored metadata.
RefreshWinners == {c \in Consumers : rcPc[c] = "check" \/ rcRet[c] = "ok"}

\* C27 (SpecAuth): of the ConsumeRefreshToken calls on one saved refresh
\* token at most one gets the stored metadata and succeeds, the key is gone
\* from then on, and every other call that has returned has returned an
\* error.
C27_RefreshOneTimeUse ==
  /\ Cardinality(RefreshWinners) <= 1
  /\ RefreshWinners # {} => ~refreshKey
  /\ \A c \in Consumers :
       rcPc[c] = "done" =>
         rcRet[c] \in {"ok", "refresh token not found", "redis error",
                       "token is expired"}
  /\ \A c \in Consumers \ RefreshWinners :
       rcPc[c] = "done" => rcRet[c] # "ok"

\* Of two overlapping calls on a token whose key has not expired, one holds
\* the metadata and has not returned yet, the other has returned "not found";
\* a third call is still to come.
C27_Witness ==
  /\ now < authLoad.ttl
  /\ \E c, d, e \in Consumers :
       /\ rcPc[c] = "check"
       /\ rcRet[d] = "refresh token not found"
       /\ rcPc[e] = "consume"

\* C28 (SpecAuth): a VerifyAccessToken call made with the blocklist after
\* RevokeAccessToken has succeeded on the token does not succeed.
C28_RevokedTokenRejected ==
  accVerify.revoked => accVerify.ret # "ok"


\* C39 (Spec): whatever ReconnectBackoff and MaxReconnectBackoff are, the
\* interval of a backoff wait of the supervisor is at most the effective
\* ceiling.
C39_BackoffWithinCeiling ==
  runPc = "backoff" => retry <= MaxRetry


\* C38 (Spec): on every connection connect has reported success for, the
\* context the stream was opened under is cancelled only through the
\* connection's cancel function (cleanup, Close) or through the context of
\* Start: it is live when connect reports success on a client nobody has
\* stopped.
C38_StreamContextLive ==
  \A k \in Conns :
    (k \in registered /\ hbPc[k] # "none") => (StreamCtxDone(k) => CtxDone(k))


\* C37 (Spec): no task of the client writes to or reads from a stream that is
\* absent, and none calls an absent cancel function or closes an absent
\* connection: the process never ends in a nil dereference of c.stream,
\* c.cancel or c.conn.
C37_NoNilHandleUse ==
  panicked \notin {"nil stream", "nil function call", "nil conn"}

\* C36 (Spec): the receive loop never sends an envelope on a subscription
\* channel that Close has closed: the process never ends in a send on a
\* closed channel, whether the loop had just read the frame or was blocked on
\* a full channel when Close ran.
C36_NoPushAfterClose ==
  panicked # "send on closed channel"

\* C35 (Spec): on every stream the client opens, the first frame written is
\* the Register frame: no Ingress frame of a PublishIngress caller and no
\* Heartbeat frame of a heartbeat task is written to a stream before that
\* stream's Register frame, also on a stream opened by a reconnect.
C35_RegisterFirst ==
  \A k \in Conns : firstFrame[k] \in {"none", "Register"}

\* C32 (Spec): at most one receive loop of the client is running, so each
\* subscription channel has at most one producer at a time: when connect
\* spawns the receive loop of the next connection, the receive loop of the
\* torn-down connection has returned.
C32_SingleReceiveLoop ==
  Cardinality({k \in Conns : csPc[k] \notin {"none", "done"}}) <= 1

\* The client is on its second connection: the receive loop of the first has
\* returned, and the receive loop of the second holds an envelope it is about
\* to push.
C32_Witness ==
  /\ csPc[1] = "done"
  /\ csPc[2] \in {"pushDeliver", "pushBroadcast"}

\* The supervisor has observed the cancellation of its context: it took the
\* ctx.Done case of one of its selects (part_003:108-109,125-127) or found
\* ctx.Err() set after a teardown (part_003:130-132).
RunObservedCancel ==
  \/ runPc = "done"
  \/ runAfter = "ret" /\ runPc \in {"cleanupCancel", "cleanupStream", "cleanupConn"}

\* The supervisor is at the top of its loop with every connect attempt of the
\* workload used.
AttemptsUsed == runPc = "loop" /\ attempt = load.connects

C33_CallbacksInFrameOrder ==
  [][/\ svFrames' # svFrames =>
          (svPc \in {"recvFirst", "recv"} /\ svFrames' = svFrames + 1)
     /\ svLog' # svLog =>
          /\ Len(svLog') = Len(svLog) + 1
          /\ SubSeq(svLog', 1, Len(svLog)) = svLog
          /\ svPc # "onRegister"
          /\ svPc = "handler" => svLog'[Len(svLog')] = "OnClose"
          /\ svLog'[Len(svLog')] # "OnClose" =>
               /\ svFrames' = svFrames + 1
               /\ svLog'[Len(svLog')] = "On" \o svCur'.kind
               /\ svCur'.arg # "nil"
     /\ (svPc = "recv" /\ svFrames' = svFrames + 1
           /\ svCur'.kind = "Ingress" /\ svCur'.arg = "nil") =>
          /\ svLog' = svLog
          /\ svPc' = "recv"
          /\ svRet' = "none"
          /\ svPending' = "none"]_vars

\* The stream has read Register, an Ingress frame whose callback has
\* returned, and an Ingress frame without an envelope: OnIngress ran once and
\* the stream is reading on.
C33_Witness ==
  /\ svFrames = 3
  /\ svCur = [kind |-> "Ingress", arg |-> "nil"]
  /\ svLog = <<"OnRegister", "OnIngress">>
  /\ svPc = "recv"
  /\ svRet = "none"

\* C34 (SpecEnvelope): a call of NormalizeEnvelope on an envelope that has
\* been normalized before changes no field, whatever id and times the second
\* call would generate; and no call overwrites a field that is set (a
\* non-empty envelope version, message version or request id, non-nil
\* attributes or metadata, a timestamp holding a time other than the zero
\* time), nor turns a nil message into a message.
C34_NormalizeIdempotent ==
  [][/\ envCalls >= 1 => env' = env
     /\ env.EnvelopeVersion # "" => env'.EnvelopeVersion = env.EnvelopeVersion
     /\ env.Attributes # "nil" => env'.Attributes = env.Attributes
     /\ env.CreatedAt \notin {"nil", "zero"} => env'.CreatedAt = env.CreatedAt
     /\ env.Message.Version # "" => env'.Message.Version = env.Message.Version
     /\ env.Message.RequestId # "" =>
          env'.Message.RequestId = env.Message.RequestId
     /\ env.Message.Metadata # "nil" =>
          env'.Message.Metadata = env.Message.Metadata
     /\ env.Message.Timestamp \notin {"nil", "zero"} =>
          env'.Message.Timestamp = env.Message.Timestamp
     /\ env'.isNil = env.isNil
     /\ env'.Message.isNil = env.Message.isNil]_vars

\* An envelope normalized twice: the request id, the message timestamp and
\* the envelope version were generated by the first call, the message
\* version and the creation time are the ones the producer had set.
C34_Witness ==
  /\ envCalls = 2
  /\ env.Message.RequestId \in EnvIds
  /\ env.Message.Timestamp \in EnvTimes
  /\ env.EnvelopeVersion = Version
  /\ env.Message.Version = "v0"
  /\ env.CreatedAt = "t0"

=============================================================================
